---- MODULE Spec2Model ----
(***************************************************************************)
(* Model of the gym-recommendation pipeline of aggiebuddie:                *)
(*   DistanceService   (backend/services/distance_service.py)              *)
(*   LocationOptimizer (backend/services/location_optimizer.py)            *)
(*   ScheduleService   (backend/services/schedule_service.py)              *)
(*   calculate_free_time_blocks (Python_Files/free_time_blocks_update.py)  *)
(*   GymRecommendationAI (backend/services/ai_service.py)                  *)
(*   the request handlers and the schedule store (backend/app.py)          *)
(*                                                                         *)
(* Representation of the Python values:                                    *)
(*  - a location is a record with a coordinates record.  All modelled      *)
(*    points lie on one meridian, where the haversine distance is exactly  *)
(*    R * |dlat|; a latitude is counted in thousandths of a mile of arc    *)
(*    north of the campus origin, so the great-circle distance of two      *)
(*    points, once passed through meters_to_miles, is |dlat| / 1000 miles. *)
(*    The origin is put on the equator, which the distance does not see.   *)
(*  - a key of a Python dict that holds None is listed in the "null" field *)
(*    of the record (a field of a record holds values of one type).        *)
(*  - a float is an exact rational <<numerator, denominator>>; floating    *)
(*    point rounding is not modelled.                                      *)
(*  - an instant is a number of seconds since midnight of date 0.          *)
(***************************************************************************)
EXTENDS Integers, Sequences, FiniteSets, TLC

VARIABLES
    pc,                 \* "call" before the operation under study ran, "done" after
    loc_a, loc_b,       \* arguments of calculate_walking_time
    walking_time,       \* its result
    previous_loc, next_loc, available_minutes, activity_minutes, available_gyms,
                        \* arguments of find_optimal_gyms
    options,            \* its result
    raised,             \* the exception a call ended with, "none" otherwise
    schedule,           \* argument of calculate_free_blocks: [classes |-> sequence]
    start_of_day, end_of_day,   \* day window, minutes since midnight ('HH:MM')
    free_blocks,        \* result of ScheduleService.calculate_free_blocks
    free_time_dict,     \* result of calculate_free_time_blocks (legacy script)
    distance,           \* result of calculate_distance, thousandths of a mile
    ics_string,         \* argument of parse_ics_content: the calendar text, parsed
    parsed_schedule,    \* its result: [classes |-> sequence]
    input_data,         \* argument of GymRecommendationAI.generate_suggestions
    campus_locations,   \* LocationService.locations
    oracle,             \* what the DeepSeek API does when it is called
    suggestions,        \* result of generate_suggestions: its 'suggestions' list
    schedules,          \* app.py: the in-memory store, student id -> entry object
    heap,               \* the entry dicts store_schedule has created; an entry
                        \* is referred to by its position
    add_req,            \* the add-locations request being served, if any
    gen_req,            \* the (re)generate-suggestions request being served, if any
    up_req,             \* the answer to the last upload-schedule request
    served,             \* number of requests of each kind answered so far
    versions,           \* history: the building assignments the store held
                        \* before and after each add-locations request
    history             \* history: which requests have succeeded, and the
                        \* entries an assignment loop went through

vars == <<pc, loc_a, loc_b, walking_time, previous_loc, next_loc, available_minutes,
          activity_minutes, available_gyms, options, raised, schedule,
          start_of_day, end_of_day, free_blocks, free_time_dict, distance,
          ics_string, parsed_schedule, input_data, campus_locations, oracle,
          suggestions, schedules, heap, add_req, gen_req, up_req, served,
          versions, history>>

None == "None"

(***************************************************************************)
(* Bounds of the model.                                                    *)
(***************************************************************************)
MaxGyms == 3
MaxClasses == 3
MaxComponents == 2      \* components of a calendar
MaxDay == 15            \* the last date of the calendar (datetime.MAXYEAR)
MaxBlocks == 2          \* free time blocks of a request
MaxRequests == 2        \* requests of each kind the server answers

(***************************************************************************)
(* Generic helpers.                                                        *)
(***************************************************************************)
Abs(x) == IF x < 0 THEN -x ELSE x

\* math.ceil of the rational n/d, d > 0
Ceil(n, d) == -((-n) \div d)

\* int() of the non-negative rational n/d: truncation
Trunc(n, d) == n \div d

\* round() of the non-negative rational n/d to an integer, ties to even
RoundHalfEven(n, d) ==
    LET q == n \div d
        r == n % d
    IN  IF 2 * r < d THEN q
        ELSE IF 2 * r > d THEN q + 1
        ELSE IF q % 2 = 0 THEN q ELSE q + 1

\* Sequences over S of length at most n, without repeated elements
RECURSIVE SeqsUpTo(_, _)
SeqsUpTo(S, n) ==
    IF n = 0 THEN {<< >>}
    ELSE LET shorter == SeqsUpTo(S, n - 1)
         IN  shorter \cup {Append(s, x) : s \in shorter, x \in S}

NoRepeat(s) == \A i, j \in 1..Len(s) : i # j => s[i] # s[j]

\* Rationals <<n, d>> with d > 0
RatLeq(x, y) == x[1] * y[2] <= y[1] * x[2]
RatLt(x, y) == x[1] * y[2] < y[1] * x[2]
RatEq(x, y) == x[1] * y[2] = y[1] * x[2]

(***************************************************************************)
(* DistanceService                                                         *)
(***************************************************************************)
WALKING_SPEED_MPH_X10 == 35     \* WALKING_SPEED_MPH = 3.5
CAMPUS_BUFFER_X10 == 12         \* CAMPUS_BUFFER = 1.2

Loc(id, lat) == [id |-> id, coordinates |-> [latitude |-> lat, longitude |-> 0]]

\* calculate_distance followed by meters_to_miles: thousandths of a mile
calculate_distance(a, b) ==
    Abs(b.coordinates.latitude - a.coordinates.latitude)

\* buffered_time = distance_mi / WALKING_SPEED_MPH * 60 * CAMPUS_BUFFER, as a rational
buffered_time(a, b) ==
    << calculate_distance(a, b) * 60 * CAMPUS_BUFFER_X10,
       1000 * WALKING_SPEED_MPH_X10 >>

\* the final rounding of calculate_walking_time: math.ceil
FloorMinutes(t) == t[1] \div t[2]
NearestMinutes(t) == RoundHalfEven(t[1], t[2])
round_up(t) == Ceil(t[1], t[2])

calculate_walking_time(a, b) == round_up(buffered_time(a, b))

\* one degree of a great circle of radius EARTH_RADIUS_M = 6371000 m, after
\* meters_to_miles, in thousandths of a mile: 6371000 * pi / 180 * 0.621371
MILLIMILES_PER_DEGREE == 69093

\* d[k] of a Python dict: the key is present (possibly holding None)
is_null(d, k) == "null" \in DOMAIN d /\ k \in d.null
has_key(d, k) == k \in DOMAIN d \/ is_null(d, k)

\* the try block of calculate_distance for one location: loc['coordinates']
\* raises KeyError when the key is missing, coords['latitude'] raises TypeError
\* when coords is None and KeyError when the key is missing
lookup_raises(loc) ==
    \/ ~has_key(loc, "coordinates")
    \/ is_null(loc, "coordinates")
    \/ ~has_key(loc.coordinates, "latitude")
    \/ ~has_key(loc.coordinates, "longitude")

\* math.radians(None) raises TypeError, outside the try block
radians_raises(loc) ==
    is_null(loc.coordinates, "latitude") \/ is_null(loc.coordinates, "longitude")

\* the exception calculate_distance ends with, "none" when it returns
calculate_distance_raises(a, b) ==
    IF lookup_raises(a) \/ lookup_raises(b) THEN "ValueError"
    ELSE IF radians_raises(a) \/ radians_raises(b) THEN "TypeError"
    ELSE "none"

\* the haversine formula for two points whose longitudes differ by a whole
\* number of turns (sin(dlon/2) = 0): c = 2*atan2(|sin(dlat/2)|, |cos(dlat/2)|)
\* is |dlat| up to half a turn and a full turn minus |dlat| beyond
haversine(a, b) ==
    LET d == calculate_distance(a, b)
        half_turn == 180 * MILLIMILES_PER_DEGREE
    IN  IF d <= half_turn THEN d ELSE 2 * half_turn - d

(***************************************************************************)
(* LocationOptimizer                                                       *)
(***************************************************************************)
SAFETY_BUFFER == 5              \* buffer = 5 in find_optimal_gyms

\* Factor 3 of _calculate_score, times 10
spare_penalty_x10(spare) ==
    IF spare < 5 THEN 200
    ELSE IF spare > 20 THEN 3 * spare
    ELSE 0

\* Factor 4 of _calculate_score, times 10 * total_available;
\* utilization = total_used / total_available is compared as a rational
utilization_bonus_x10A(total_used, total_available) ==
    IF 70 * total_available <= 100 * total_used
          /\ 100 * total_used <= 90 * total_available
    THEN -50 * total_available
    ELSE IF 100 * total_used > 90 * total_available
    THEN 100 * total_available
    ELSE 100 * (total_available - total_used)

\* Factor 1 of _calculate_score, times 10: total_commute * 2.0
CommuteWeightOne(time_to, time_from) == 10 * (time_to + time_from)

commute_score_x10(time_to, time_from) == 20 * (time_to + time_from)

\* Factor 2 of _calculate_score, times 10: abs(time_to - time_from) * 0.5
imbalance_penalty_x10(time_to, time_from) == 5 * Abs(time_to - time_from)

\* _calculate_score: the score as the rational <<10 * A * score, 10 * A>>
\* (total_available = 0 raises ZeroDivisionError: see find_optimal_gyms)
_calculate_score(time_to, time_from, spare, total_used, total_available) ==
    << ( commute_score_x10(time_to, time_from)
       + imbalance_penalty_x10(time_to, time_from)
       + spare_penalty_x10(spare) ) * total_available
       + utilization_bonus_x10A(total_used, total_available),
       10 * total_available >>

\* the feasibility test of find_optimal_gyms
FeasibleWithoutBuffer(total_needed, buffer, available) == total_needed <= available

FeasibleShortOfBuffer(total_needed, buffer, available) == total_needed < available

is_feasible(total_needed, buffer, available) == total_needed + buffer <= available

\* 'utilization': round((total_needed / available_minutes) * 100, 1), in tenths
\* of a percent
reported_utilization(total_needed, available) ==
    RoundHalfEven(total_needed * 1000, available)

\* the dictionary appended to feasible for one gym
make_option(prev, next, available, activity, gym) ==
    LET time_to == calculate_walking_time(prev, gym)
        time_from == calculate_walking_time(gym, next)
        total_needed == time_to + activity + time_from
        spare == available - total_needed
    IN  [ gym |-> gym,
          time_to_gym |-> time_to,
          time_from_gym |-> time_from,
          total_commute |-> time_to + time_from,
          spare_time |-> spare,
          score |-> _calculate_score(time_to, time_from, spare,
                                     total_needed + SAFETY_BUFFER, available),
          utilization |-> reported_utilization(total_needed, available) ]

gym_feasible(prev, next, available, activity, gym) ==
    is_feasible(calculate_walking_time(prev, gym) + activity
                    + calculate_walking_time(gym, next),
                SAFETY_BUFFER, available)

\* the loop over available_gyms: the feasible list in encounter order
RECURSIVE feasible_list(_, _, _, _, _)
feasible_list(prev, next, available, activity, gyms) ==
    IF gyms = << >> THEN << >>
    ELSE LET rest == feasible_list(prev, next, available, activity,
                                   SubSeq(gyms, 1, Len(gyms) - 1))
             gym == gyms[Len(gyms)]
         IN  IF gym_feasible(prev, next, available, activity, gym)
             THEN Append(rest, make_option(prev, next, available, activity, gym))
             ELSE rest

\* sorted(feasible, key=score): Python's sort is stable, so an element goes
\* after every element whose key is not greater
InsertBeforeEqual(sorted, x) ==
    LET k == Cardinality({i \in 1..Len(sorted) : RatLt(sorted[i].score, x.score)})
    IN  SubSeq(sorted, 1, k) \o <<x>> \o SubSeq(sorted, k + 1, Len(sorted))

insert_stable(sorted, x) ==
    LET k == Cardinality({i \in 1..Len(sorted) : RatLeq(sorted[i].score, x.score)})
    IN  SubSeq(sorted, 1, k) \o <<x>> \o SubSeq(sorted, k + 1, Len(sorted))

RECURSIVE sorted_by_score(_)
sorted_by_score(s) ==
    IF s = << >> THEN << >>
    ELSE insert_stable(sorted_by_score(SubSeq(s, 1, Len(s) - 1)), s[Len(s)])

\* a feasible gym with available_minutes = 0 makes _calculate_score divide by zero
find_optimal_gyms_raises(prev, next, available, activity, gyms) ==
    /\ available = 0
    /\ \E i \in 1..Len(gyms) : gym_feasible(prev, next, available, activity, gyms[i])

find_optimal_gyms(prev, next, available, activity, gyms) ==
    IF find_optimal_gyms_raises(prev, next, available, activity, gyms)
    THEN << >>
    ELSE sorted_by_score(feasible_list(prev, next, available, activity, gyms))

(***************************************************************************)
(* ScheduleService.calculate_free_blocks                                   *)
(***************************************************************************)
SecondsPerDay == 24 * 60 * 60

\* datetime.date(): the date an instant falls on
date_of(t) == t \div SecondsPerDay

\* datetime.time(): the time of day, in seconds
time_of(t) == t % SecondsPerDay

\* strftime('%H:%M') (and '%I:%M %p'): the seconds are dropped; the string is
\* represented by its minutes since midnight
strftime_HM(t) == time_of(t) \div 60

\* map(int, 'HH:MM'.split(':')) as minutes since midnight
HM(h, m) == h * 60 + m

\* the keys of classes_by_date in insertion order (a dict keeps it)
RECURSIVE dates_in_order(_)
dates_in_order(classes) ==
    IF classes = << >> THEN << >>
    ELSE LET before == dates_in_order(SubSeq(classes, 1, Len(classes) - 1))
             d == date_of(classes[Len(classes)].start)
         IN  IF \E i \in 1..Len(before) : before[i] = d THEN before
             ELSE Append(before, d)

\* classes_by_date[date]: the classes of the date in list order
RECURSIVE classes_on(_, _)
classes_on(classes, d) ==
    IF classes = << >> THEN << >>
    ELSE LET before == classes_on(SubSeq(classes, 1, Len(classes) - 1), d)
             c == classes[Len(classes)]
         IN  IF date_of(c.start) = d THEN Append(before, c) ELSE before

\* day_classes.sort(key=start): stable
insert_by_start(sorted, c) ==
    LET k == Cardinality({i \in 1..Len(sorted) : sorted[i].start <= c.start})
    IN  SubSeq(sorted, 1, k) \o <<c>> \o SubSeq(sorted, k + 1, Len(sorted))

RECURSIVE sort_by_start(_)
sort_by_start(s) ==
    IF s = << >> THEN << >>
    ELSE insert_by_start(sort_by_start(SubSeq(s, 1, Len(s) - 1)), s[Len(s)])

\* "Only include if there's actually a gap"
GapOrTouching(gap_start, gap_end) == gap_start <= gap_end

has_gap(gap_start, gap_end) == gap_start < gap_end

\* minutes = int((gap_end - gap_start).total_seconds() / 60)
gap_minutes(gap_start, gap_end) == Trunc(gap_end - gap_start, 60)

FreeBlockFromClassStart(d, current, next_cls) ==
    [ date |-> d,
      start_time |-> strftime_HM(current.start),
      end_time |-> strftime_HM(next_cls.start),
      previous_class_location |-> current.building_id,
      next_class_location |-> next_cls.building_id,
      available_minutes |-> Trunc(next_cls.start - current.start, 60),
      previous_class_name |-> current.course_id,
      next_class_name |-> next_cls.course_id ]

make_free_block(d, current, next_cls) ==
    [ date |-> d,
      start_time |-> strftime_HM(current.end),
      end_time |-> strftime_HM(next_cls.start),
      previous_class_location |-> current.building_id,
      next_class_location |-> next_cls.building_id,
      available_minutes |-> gap_minutes(current.end, next_cls.start),
      previous_class_name |-> current.course_id,
      next_class_name |-> next_cls.course_id ]

\* the loop over range(len(day_classes) - 1), for the first n pairs
RECURSIVE day_blocks(_, _, _)
day_blocks(d, day_classes, n) ==
    IF n <= 0 THEN << >>
    ELSE LET before == day_blocks(d, day_classes, n - 1)
             current == day_classes[n]
             next_cls == day_classes[n + 1]
         IN  IF has_gap(current.end, next_cls.start)
             THEN Append(before, make_free_block(d, current, next_cls))
             ELSE before

\* the loop over classes_by_date.items(), for the first n dates
RECURSIVE blocks_of_dates(_, _, _)
blocks_of_dates(classes, dates, n) ==
    IF n = 0 THEN << >>
    ELSE LET day_classes == sort_by_start(classes_on(classes, dates[n]))
         IN  blocks_of_dates(classes, dates, n - 1)
                \o day_blocks(dates[n], day_classes, Len(day_classes) - 1)

\* what a call leaves in schedule['classes']: the classes are appended to the
\* new lists of classes_by_date, and it is those lists that are sorted
SortedInPlace(classes) == sort_by_start(classes)

classes_after_call(classes) == classes

\* start_of_day and end_of_day are parsed and not used afterwards
calculate_free_blocks(sched, sod, eod) ==
    LET classes == sched.classes
        dates == dates_in_order(classes)
    IN  blocks_of_dates(classes, dates, Len(dates))

(***************************************************************************)
(* ScheduleService.parse_ics_content and _parse_recurring_events           *)
(*                                                                         *)
(* A calendar is [well_formed, components]; a component is a record with   *)
(* name, summary, dtstart, dtend, tzinfo and, when it recurs, rrule.  A    *)
(* datetime is its wall-clock instant together with its tzinfo; a tzinfo   *)
(* is [name, std, dst], the UTC offsets in hours it gives to instants      *)
(* before and from DstStartDay (name "None": a naive datetime).  A rule is *)
(* [text, freq] with freq in days and optional count and until; text tells *)
(* what rrulestr makes of the rule text: "plain" parses, "until_utc" is an *)
(* UNTIL marked Z that rrulestr rejects until the Z is stripped, and       *)
(* "malformed" never parses.                                               *)
(***************************************************************************)
\* the last instant a datetime can hold
LastInstant == MaxDay * SecondsPerDay + SecondsPerDay - 1

\* the day from which a zone with daylight saving time gives its dst offset
DstStartDay == MaxDay \div 2

NoTzinfo == [name |-> "None", std |-> 0, dst |-> 0]

\* tzinfo.utcoffset(dt)
utcoffset(tz, t) == IF date_of(t) >= DstStartDay THEN tz.dst ELSE tz.std

\* rrulestr(text): ValueError unless the text parses
rrulestr_raises(rule) == rule.text # "plain"

\* re.sub(r'UNTIL=\d{8}T\d{6}Z', ...): the Z of the UNTIL value is removed
strip_utc_marker(rule) ==
    [rule EXCEPT !.text = IF @ = "until_utc" THEN "plain" ELSE @]

\* the try/except ValueError around rrulestr: the retry is not guarded
_parse_recurring_events_raises(rule) ==
    rrulestr_raises(rule) /\ rrulestr_raises(strip_utc_marker(rule))

\* iteration of the rrule object from its k-th occurrence on: it ends at COUNT,
\* after UNTIL, and where the calendar ends
RECURSIVE rrule_iter(_, _, _)
rrule_iter(rule, dtstart, k) ==
    LET t == dtstart + k * rule.freq * SecondsPerDay
    IN  IF /\ t <= LastInstant
           /\ ("count" \in DOMAIN rule => k < rule.count)
           /\ ("until" \in DOMAIN rule => t <= rule.until)
        THEN <<t>> \o rrule_iter(rule, dtstart, k + 1)
        ELSE << >>

\* the event dict of one occurrence (and of a single event)
parsed_event(component, start, end, tz) ==
    [ course_id |-> component.summary, start |-> start, end |-> end,
      tzinfo |-> tz, building_id |-> None ]

\* occurrence_start.replace(tzinfo=original_tz); occurrence_start + duration
_parse_recurring_events(component) ==
    LET duration == component.dtend - component.dtstart
        original_tz == component.tzinfo
        starts == rrule_iter(component.rrule, component.dtstart, 0)
    IN  [i \in 1..Len(starts) |->
            parsed_event(component, starts[i], starts[i] + duration, original_tz)]

\* what the loop body appends for one component
events_of(component) ==
    IF component.name # "VEVENT" THEN << >>
    ELSE IF "dtstart" \notin DOMAIN component \/ "dtend" \notin DOMAIN component
    THEN << >>
    ELSE IF "rrule" \in DOMAIN component THEN _parse_recurring_events(component)
    ELSE <<parsed_event(component, component.dtstart, component.dtend,
                        component.tzinfo)>>

component_raises(component) ==
    /\ component.name = "VEVENT"
    /\ "dtstart" \in DOMAIN component /\ "dtend" \in DOMAIN component
    /\ "rrule" \in DOMAIN component
    /\ _parse_recurring_events_raises(component.rrule)

\* the exception parse_ics_content ends with, "none" when it returns
parse_ics_content_raises(ics) ==
    IF ~ics.well_formed THEN "ValueError"
    ELSE IF \E i \in 1..Len(ics.components) : component_raises(ics.components[i])
    THEN "ValueError"
    ELSE "none"

RECURSIVE classes_of(_)
classes_of(components) ==
    IF components = << >> THEN << >>
    ELSE classes_of(SubSeq(components, 1, Len(components) - 1))
            \o events_of(components[Len(components)])

parse_ics_content(ics) == [classes |-> classes_of(ics.components)]

(***************************************************************************)
(* LocationService, DeepSeekClient and GymRecommendationAI                 *)
(*                                                                         *)
(* campus_locations is the list of location dicts, each with a type.  The  *)
(* oracle is [api_key, outcome, suggestions]: whether a key is configured, *)
(* what the HTTP call and the parsing of its answer do ("raises",          *)
(* "timeout", "http_error", "unparsable", "ok") and the suggestions an     *)
(* "ok" answer holds.  A reasoning text is the record of its phrases.      *)
(***************************************************************************)
MIN_COMMUTE_BUFFER == 10
AI_SAFETY_BUFFER == 5           \* GymRecommendationAI.SAFETY_BUFFER
TOP_OPTIONS == 3                \* ranked_options[:3]
DEFAULT_ACTIVITY == 60          \* activity_duration = 60 in _calculate_commute_info

Min(a, b) == IF a <= b THEN a ELSE b
Max(a, b) == IF a >= b THEN a ELSE b

\* get_locations_by_type: the locations of the type, in list order
RECURSIVE get_locations_by_type(_, _)
get_locations_by_type(locations, location_type) ==
    IF locations = << >> THEN << >>
    ELSE LET before == get_locations_by_type(SubSeq(locations, 1, Len(locations) - 1),
                                             location_type)
             loc == locations[Len(locations)]
         IN  IF loc.type = location_type THEN Append(before, loc) ELSE before

\* get_location_by_id returns None when no location has the id
location_found(locations, location_id) ==
    \E i \in 1..Len(locations) : locations[i].id = location_id

\* get_location_by_id: the first location with the id
get_location_by_id(locations, location_id) ==
    locations[CHOOSE i \in 1..Len(locations) :
                 /\ locations[i].id = location_id
                 /\ \A j \in 1..(i - 1) : locations[j].id # location_id]

\* DeepSeekClient.generate_suggestions: every failure becomes an empty list
\* with an error text; an answer that does not parse is an empty list
deepseek_generate_suggestions(orc) ==
    IF ~orc.api_key
    THEN [suggestions |-> << >>, error |-> "DeepSeek API key not configured"]
    ELSE IF orc.outcome \in {"raises", "timeout", "http_error"}
    THEN [suggestions |-> << >>, error |-> orc.outcome]
    ELSE IF orc.outcome = "unparsable"
    THEN [suggestions |-> << >>, error |-> None]
    ELSE [suggestions |-> orc.suggestions, error |-> None]

\* if ai_result['suggestions'] and not ai_result['error']
use_ai_suggestions(ai_result) ==
    ai_result.suggestions # << >> /\ ai_result.error = None

\* _is_suitable
_is_suitable(block, activity_duration) ==
    block.available_minutes
        >= MIN_COMMUTE_BUFFER * 2 + activity_duration + AI_SAFETY_BUFFER

\* _generate_reasoning: the phrase chosen for each of the three metrics
\* (utilization is the option's reported value, in tenths of a percent)
commute_phrase(total_commute) ==
    IF total_commute < 15 THEN "Excellent location"
    ELSE IF total_commute < 25 THEN "Good location"
    ELSE "Feasible"

utilization_phrase(utilization) ==
    IF utilization >= 850 THEN "Great use of your free time"
    ELSE IF utilization >= 700 THEN "Efficient time usage"
    ELSE "none"

spare_phrase(spare) ==
    IF spare >= 10 THEN "min buffer for flexibility"
    ELSE IF spare >= 5 THEN "Comfortable timing"
    ELSE "Tight schedule - be prompt"

_generate_reasoning(option) ==
    [ commute |-> commute_phrase(option.total_commute),
      utilization |-> utilization_phrase(option.utilization),
      spare |-> spare_phrase(option.spare_time) ]

\* confidence = max(1.0 - (rank - 1) * 0.15, 0.5), in hundredths
ConfidenceStepTenth(rank) == Max(100 - (rank - 1) * 10, 50)

confidence_score(rank) == Max(100 - (rank - 1) * 15, 50)

\* _create_suggestion
_create_suggestion(rank, block, option, activity_duration) ==
    [ rank |-> rank,
      date |-> block.date,
      start_time |-> block.start_time,
      end_time |-> block.end_time,
      location_id |-> option.gym.id,
      activity |-> "Exercise",
      activity_duration |-> activity_duration,
      confidence_score |-> confidence_score(rank),
      reasoning |-> _generate_reasoning(option),
      commute_info |-> [ time_to |-> option.time_to_gym,
                         time_from |-> option.time_from_gym,
                         total_commute |-> option.total_commute,
                         spare_time |-> option.spare_time ],
      previous_class |-> block.previous_class_name,
      next_class |-> block.next_class_name ]

\* if not prev_loc or not next_loc
locations_resolved(all_locations, block) ==
    /\ location_found(all_locations, block.previous_class_location)
    /\ location_found(all_locations, block.next_class_location)

\* the ranked options _process_block asks the optimizer for
ranked_options(all_locations, block, activity_duration, locations) ==
    find_optimal_gyms(get_location_by_id(all_locations, block.previous_class_location),
                      get_location_by_id(all_locations, block.next_class_location),
                      block.available_minutes, activity_duration, locations)

\* enumerate(ranked_options[:3], 1)
RanksFromZero(ranked, block, activity_duration) ==
    [k \in 1..Min(TOP_OPTIONS, Len(ranked)) |->
        _create_suggestion(k - 1, block, ranked[k], activity_duration)]

top_suggestions(ranked, block, activity_duration) ==
    [k \in 1..Min(TOP_OPTIONS, Len(ranked)) |->
        _create_suggestion(k, block, ranked[k], activity_duration)]

\* _process_block
_process_block(all_locations, block, activity_duration, locations) ==
    IF ~locations_resolved(all_locations, block) THEN << >>
    ELSE top_suggestions(ranked_options(all_locations, block, activity_duration,
                                        locations),
                         block, activity_duration)

\* the blocks the fallback hands to _process_block
SuitableOrNot(block, activity_duration) == TRUE

block_is_processed(block, activity_duration) == _is_suitable(block, activity_duration)

\* _generate_fallback_suggestions
RECURSIVE _generate_fallback_suggestions(_, _, _, _)
_generate_fallback_suggestions(all_locations, blocks, activity_duration, locations) ==
    IF blocks = << >> THEN << >>
    ELSE LET before == _generate_fallback_suggestions(
                           all_locations, SubSeq(blocks, 1, Len(blocks) - 1),
                           activity_duration, locations)
             block == blocks[Len(blocks)]
         IN  IF block_is_processed(block, activity_duration)
             THEN before \o _process_block(all_locations, block, activity_duration,
                                           locations)
             ELSE before

\* an exception of find_optimal_gyms is not caught on the fallback path
fallback_raises(all_locations, blocks, activity_duration, locations) ==
    \E i \in 1..Len(blocks) :
        /\ block_is_processed(blocks[i], activity_duration)
        /\ locations_resolved(all_locations, blocks[i])
        /\ find_optimal_gyms_raises(
              get_location_by_id(all_locations, blocks[i].previous_class_location),
              get_location_by_id(all_locations, blocks[i].next_class_location),
              blocks[i].available_minutes, activity_duration, locations)

\* _calculate_commute_info: the optimizer's times for the one location, the
\* fallback values when the block's buildings are unknown, the location is
\* not feasible or the optimizer raises
_calculate_commute_info(all_locations, block, location) ==
    LET fallback == [ time_to |-> 5, time_from |-> 5, total_commute |-> 10,
                      spare_time |-> block.available_minutes - 60 - 10 ]
    IN  IF ~locations_resolved(all_locations, block) THEN fallback
        ELSE LET opts == ranked_options(all_locations, block, DEFAULT_ACTIVITY,
                                        <<location>>)
             IN  IF opts = << >> THEN fallback
                 ELSE [ time_to |-> opts[1].time_to_gym,
                        time_from |-> opts[1].time_from_gym,
                        total_commute |-> opts[1].total_commute,
                        spare_time |-> opts[1].spare_time ]

\* the first block with the date and start time of an AI suggestion
matching_blocks(blocks, sugg) ==
    {i \in 1..Len(blocks) :
        blocks[i].date = sugg.date /\ blocks[i].start_time = sugg.start_time}

first_of(S) == CHOOSE i \in S : \A j \in S : i <= j

\* _format_ai_suggestions: a suggestion without a matching block or a known
\* location is skipped
RECURSIVE _format_ai_suggestions(_, _, _, _, _)
_format_ai_suggestions(all_locations, ai_suggestions, blocks, locations, duration) ==
    IF ai_suggestions = << >> THEN << >>
    ELSE LET before == _format_ai_suggestions(
                           all_locations,
                           SubSeq(ai_suggestions, 1, Len(ai_suggestions) - 1),
                           blocks, locations, duration)
             sugg == ai_suggestions[Len(ai_suggestions)]
             matching == matching_blocks(blocks, sugg)
         IN  IF matching = {} \/ ~location_found(locations, sugg.location_id)
             THEN before
             ELSE LET block == blocks[first_of(matching)]
                      location == get_location_by_id(locations, sugg.location_id)
                  IN  Append(before,
                        [ rank |-> sugg.rank,
                          date |-> sugg.date,
                          start_time |-> sugg.start_time,
                          end_time |-> block.end_time,
                          location_id |-> location.id,
                          activity |-> "Exercise",
                          activity_duration |-> duration,
                          confidence_score |-> sugg.confidence,
                          reasoning |-> [ commute |-> "none", utilization |-> "none",
                                          spare |-> sugg.reasoning ],
                          commute_info |-> _calculate_commute_info(all_locations,
                                                                   block, location),
                          previous_class |-> block.previous_class_name,
                          next_class |-> block.next_class_name ])

\* GymRecommendationAI.generate_suggestions: the 'suggestions' of its result
generate_suggestions(all_locations, input, orc) ==
    LET blocks == input.free_time_blocks
        activity_duration == input.activity_duration_minutes
        locations == get_locations_by_type(all_locations, "gym")
        ai_result == deepseek_generate_suggestions(orc)
    IN  IF blocks = << >> THEN << >>
        ELSE IF locations = << >> THEN << >>
        ELSE IF use_ai_suggestions(ai_result)
        THEN _format_ai_suggestions(all_locations, ai_result.suggestions, blocks,
                                    locations, activity_duration)
        ELSE _generate_fallback_suggestions(all_locations, blocks, activity_duration,
                                            locations)

\* the exception generate_suggestions ends with, "none" when it returns
generate_suggestions_raises(all_locations, input, orc) ==
    LET blocks == input.free_time_blocks
        locations == get_locations_by_type(all_locations, "gym")
    IN  IF /\ blocks # << >> /\ locations # << >>
           /\ ~use_ai_suggestions(deepseek_generate_suggestions(orc))
           /\ fallback_raises(all_locations, blocks, input.activity_duration_minutes,
                              locations)
        THEN "ZeroDivisionError" ELSE "none"

(***************************************************************************)
(* app.py: the schedule store and the handlers of /api/upload-schedule,    *)
(* /api/schedule/add-locations and /api/generate-suggestions.  The server  *)
(* runs each request on its own thread; a handler is split where another   *)
(* thread can run between two accesses of the shared schedule.             *)
(***************************************************************************)
\* store_schedule: the entry dict it builds
KeepsAssigned(schedule_data) ==
    [schedule |-> schedule_data, buildings_assigned |-> TRUE]

new_entry(schedule_data) ==
    [schedule |-> schedule_data, buildings_assigned |-> FALSE]

\* store_schedule: schedules[student_id] = entry binds the student to the new
\* object
store_schedule(store, student_id, ref) ==
    [s \in DOMAIN store \cup {student_id} |->
        IF s = student_id THEN ref ELSE store[s]]

\* get_schedule returns None for a student without an entry
schedule_found(store, student_id) == student_id \in DOMAIN store

\* update_schedule_buildings: the flag of the entry the student is bound to
\* when it is called
update_schedule_buildings(store, objects, student_id) ==
    IF student_id \in DOMAIN store
    THEN [objects EXCEPT ![store[student_id]].buildings_assigned = TRUE]
    ELSE objects

\* the validation loop of add_locations: the ids get_location_by_id does not
\* find
invalid_buildings(all_locations, locations) ==
    {locations[c] : c \in {x \in DOMAIN locations :
                              ~location_found(all_locations, locations[x])}}

\* the loop body of add_locations: cls['building_id'] = locations[course_id]
assign_building(cls, locations) ==
    IF cls.course_id \in DOMAIN locations
    THEN [cls EXCEPT !.building_id = locations[cls.course_id]]
    ELSE cls

\* the classes of the stored schedule when add_locations answers 400: the
\* assignment loop comes after the validation
AssignedBeforeValidation(classes, locations) ==
    [i \in 1..Len(classes) |-> assign_building(classes[i], locations)]

classes_when_rejected(classes, locations) == classes

\* the classes of the stored schedule in the order calculate_free_blocks
\* walks them (one date)
walk_order(classes) == sort_by_start(classes)

\* the building_id of every class of a schedule, by course
assignment_of(classes) ==
    [c \in {classes[i].course_id : i \in 1..Len(classes)} |->
        (CHOOSE cls \in {classes[i] : i \in 1..Len(classes)} :
            cls.course_id = c).building_id]

\* the assignment a request leaves once its loop is through
assignment_after(classes, locations) ==
    [c \in DOMAIN assignment_of(classes) |->
        IF c \in DOMAIN locations THEN locations[c] ELSE assignment_of(classes)[c]]

(***************************************************************************)
(* calculate_free_time_blocks of free_time_blocks_update.py                *)
(***************************************************************************)
day_start == HM(8, 0) * 60      \* time(8, 0), in seconds
day_end == HM(18, 0) * 60       \* time(18, 0), in seconds

\* class_times: (start.time(), end.time()) of the rows sorted by start
class_times(day_classes) ==
    [i \in 1..Len(day_classes) |->
        <<time_of(day_classes[i].start), time_of(day_classes[i].end)>>]

\* a block "hh:mm - hh:mm" as the pair of its two formatted times
legacy_block(from, to) == <<from \div 60, to \div 60>>

legacy_leading(ct) ==
    IF ct # << >> /\ day_start < ct[1][1]
    THEN <<legacy_block(day_start, ct[1][1])>> ELSE << >>

RECURSIVE legacy_between(_, _)
legacy_between(ct, n) ==
    IF n <= 0 THEN << >>
    ELSE LET before == legacy_between(ct, n - 1)
         IN  IF ct[n][2] < ct[n + 1][1]
             THEN Append(before, legacy_block(ct[n][2], ct[n + 1][1]))
             ELSE before

legacy_trailing(ct) ==
    IF ct # << >> /\ ct[Len(ct)][2] < day_end
    THEN <<legacy_block(ct[Len(ct)][2], day_end)>> ELSE << >>

legacy_day(day_classes) ==
    LET ct == class_times(sort_by_start(day_classes))
        blocks == legacy_leading(ct) \o legacy_between(ct, Len(ct) - 1)
                    \o legacy_trailing(ct)
    IN  IF blocks = << >> THEN <<"No free time">> ELSE blocks

\* df.groupby('date'): one entry per date that has a row
calculate_free_time_blocks(classes) ==
    [d \in {date_of(classes[i].start) : i \in 1..Len(classes)} |->
        legacy_day(classes_on(classes, d))]

(***************************************************************************)
(* Inputs of the model                                                     *)
(***************************************************************************)
\* class buildings and gyms of the campus (latitudes in thousandths of a mile)
BUILDINGS == {Loc("bloc", 0), Loc("evans", 200), Loc("zach", 250)}
GYMS == {Loc("polo-road-rec", 0), Loc("student-rec", 50),
         Loc("southside-rec", 200), Loc("west-campus-rec", 2000)}

\* latitudes of the points calculate_walking_time is applied to
WalkLatitudes == {0, 1, 48, 49, 50, 200, 250, 875, 876, 1750, 2000}

AvailableDomain == {0, 5, 40, 60, 90, 100}
ActivityDomain == {30, 45, 60, 80}
\* find_optimal_gyms is also called with no activity at all
OptActivityDomain == ActivityDomain \cup {0}

\* instants of the class timetable: date 0 and date 1
At(d, h, m, sec) == d * SecondsPerDay + (h * 60 + m) * 60 + sec
TimePoints == {At(0, 8, 0, 0), At(0, 8, 50, 0), At(0, 8, 50, 30), At(0, 10, 20, 0),
               At(0, 11, 10, 0), At(1, 9, 0, 0), At(1, 10, 0, 0)}
CourseNames == <<"MATH 304", "CSCE 221", "PHYS 218", "ISTM 622", "ENGL 104">>
DayWindows == {<<HM(8, 0), HM(18, 0)>>, <<HM(9, 0), HM(10, 0)>>}

\* the time spans a class can take: it ends after it starts, on the same date
ClassSpans == {sp \in TimePoints \X TimePoints :
                  sp[1] < sp[2] /\ date_of(sp[1]) = date_of(sp[2])}

\* the event parse_ics_content builds for the i-th VEVENT
Event(i, sp) == [course_id |-> CourseNames[i], start |-> sp[1], end |-> sp[2],
                 building_id |-> None]

Schedules ==
    {[classes |-> [i \in 1..Len(spans) |-> Event(i, spans[i])]] :
        spans \in SeqsUpTo(ClassSpans, MaxClasses)}

GymLists == {g \in SeqsUpTo(GYMS, MaxGyms) : NoRepeat(g)}

\* the calendars handed to parse_ics_content
TZINFOS == {NoTzinfo, [name |-> "UTC", std |-> 0, dst |-> 0],
            [name |-> "CST", std |-> -6, dst |-> -6],
            [name |-> "America/Chicago", std |-> -6, dst |-> -5]}
AnchorSpans == {<<At(0, 8, 0, 0), At(0, 8, 50, 0)>>, <<At(1, 9, 0, 0), At(1, 10, 20, 0)>>}
RRULES == {[text |-> "plain", freq |-> 7, count |-> 3],
           [text |-> "plain", freq |-> 1, until |-> At(3, 23, 59, 59)],
           [text |-> "until_utc", freq |-> 7, until |-> At(8, 9, 0, 0)],
           [text |-> "plain", freq |-> 7],
           [text |-> "malformed"]}
ComponentShapes ==
    {[name |-> "VEVENT", dtstart |-> sp[1], dtend |-> sp[2], tzinfo |-> tz] :
        sp \in AnchorSpans, tz \in TZINFOS}
      \cup {[name |-> "VEVENT", dtstart |-> sp[1], dtend |-> sp[2], tzinfo |-> tz,
             rrule |-> r] : sp \in AnchorSpans, tz \in TZINFOS, r \in RRULES}
      \cup {[name |-> "VTIMEZONE"], [name |-> "VEVENT", dtstart |-> At(0, 8, 0, 0)]}
Component(i, shape) == [summary |-> CourseNames[i]] @@ shape
Calendars ==
    {[well_formed |-> TRUE,
      components |-> [i \in 1..Len(shapes) |-> Component(i, shapes[i])]] :
        shapes \in SeqsUpTo(ComponentShapes, MaxComponents)}
      \cup {[well_formed |-> FALSE, components |-> << >>]}

\* the campus data of LocationService: class buildings and gyms
Place(type, loc) == [type |-> type] @@ loc
ClassBuildings == <<Place("building", Loc("bloc", 0)), Place("building", Loc("evans", 200)),
                    Place("building", Loc("zach", 250))>>
CampusData ==
    { ClassBuildings \o <<Place("gym", Loc("polo-road-rec", 0)),
                          Place("gym", Loc("student-rec", 50)),
                          Place("gym", Loc("southside-rec", 200)),
                          Place("gym", Loc("west-campus-rec", 2000))>>,
      ClassBuildings \o <<Place("gym", Loc("southside-rec", 200)),
                          Place("gym", Loc("polo-road-rec", 0))>>,
      ClassBuildings \o <<Place("gym", Loc("west-campus-rec", 2000))>>,
      ClassBuildings }

\* the free time blocks of a request: the i-th block of the day, as
\* calculate_free_blocks builds it
BlockShapes == {"evans", None} \X {"zach", "unknown-hall"} \X {55, 90, 150}
FreeBlock(i, shape) ==
    [ date |-> 0,
      start_time |-> HM(8, 50) + (i - 1) * 180,
      end_time |-> HM(8, 50) + (i - 1) * 180 + shape[3],
      previous_class_location |-> shape[1],
      next_class_location |-> shape[2],
      available_minutes |-> shape[3],
      previous_class_name |-> CourseNames[i],
      next_class_name |-> CourseNames[i + 1] ]
InputData ==
    {[ free_time_blocks |-> [i \in 1..Len(shapes) |-> FreeBlock(i, shapes[i])],
       activity_duration_minutes |-> a,
       activity_type |-> "gym" ] :
        shapes \in SeqsUpTo(BlockShapes, MaxBlocks), a \in ActivityDomain}

\* what the oracle can answer
AiSuggestion(start, location_id) ==
    [ rank |-> 1, date |-> 0, start_time |-> start, location_id |-> location_id,
      confidence |-> 95, reasoning |-> "AI-generated suggestion" ]
Oracles ==
    {[api_key |-> FALSE, outcome |-> "ok", suggestions |-> << >>]}
      \cup {[api_key |-> TRUE, outcome |-> o, suggestions |-> << >>] :
               o \in {"raises", "timeout", "http_error", "unparsable", "ok"}}
      \cup {[api_key |-> TRUE, outcome |-> "ok", suggestions |-> a] :
               a \in { <<AiSuggestion(HM(7, 0), "student-rec"),
                         AiSuggestion(HM(8, 50), "west-campus-rec")>>,
                       <<AiSuggestion(HM(8, 50), "student-rec"),
                         AiSuggestion(HM(8, 50), "moon-base")>> }}

\* the server: one student, whose calendar has three classes on one day, and
\* the building assignments the app sends
STUDENT == "student-1"
Vevent(i, sp) ==
    Component(i, [name |-> "VEVENT", dtstart |-> sp[1], dtend |-> sp[2],
                  tzinfo |-> NoTzinfo])
UploadedCalendar ==
    [well_formed |-> TRUE,
     components |-> << Vevent(1, <<At(0, 8, 0, 0), At(0, 8, 50, 0)>>),
                       Vevent(2, <<At(0, 10, 20, 0), At(0, 11, 10, 0)>>),
                       Vevent(3, <<At(0, 13, 0, 0), At(0, 13, 50, 0)>>) >>]
UploadedSchedule == parse_ics_content(UploadedCalendar)
\* the files the app uploads: the calendar, a text that is no calendar and a
\* calendar with a recurrence rule that does not parse
UploadContents ==
    { UploadedCalendar,
      [well_formed |-> FALSE, components |-> << >>],
      [well_formed |-> TRUE,
       components |-> << Component(1, [name |-> "VEVENT", dtstart |-> At(0, 8, 0, 0),
                                       dtend |-> At(0, 8, 50, 0), tzinfo |-> NoTzinfo,
                                       rrule |-> [text |-> "malformed"]]) >>] }
\* the last map names a building the campus data does not have
LocationMaps ==
    { (CourseNames[1] :> "bloc") @@ (CourseNames[2] :> "evans") @@ (CourseNames[3] :> "zach"),
      (CourseNames[1] :> "zach") @@ (CourseNames[2] :> "bloc") @@ (CourseNames[3] :> "evans"),
      (CourseNames[2] :> "zach"),
      (CourseNames[1] :> "bloc") @@ (CourseNames[2] :> "moon-base") }
\* the requests for suggestions: all blocks, or one block anew
SuggestionRequests ==
    { [kind |-> "generate"],
      [kind |-> "regenerate", date |-> 0, start_time |-> HM(8, 50), end_time |-> HM(10, 20)],
      [kind |-> "regenerate", date |-> 0, start_time |-> HM(9, 0), end_time |-> HM(10, 0)] }
ServerCampus ==
    ClassBuildings \o <<Place("gym", Loc("student-rec", 50)),
                        Place("gym", Loc("southside-rec", 200))>>
NoOracle == [api_key |-> FALSE, outcome |-> "ok", suggestions |-> << >>]

\* locations handed to calculate_distance: well-formed ones, on the edge of and
\* outside the coordinate ranges, and malformed ones
EdgeLatitudes == {0, 200, 90 * MILLIMILES_PER_DEGREE, 90 * MILLIMILES_PER_DEGREE + 1,
                  -90 * MILLIMILES_PER_DEGREE - 1}
EdgeLongitudes == {0, 360, -360}
GeoPoint(id, lat, lon) == [id |-> id, coordinates |-> [latitude |-> lat, longitude |-> lon]]
DistanceArguments(id) ==
    {GeoPoint(id, lat, lon) : lat \in EdgeLatitudes, lon \in EdgeLongitudes}
      \cup { [id |-> id],
             [id |-> id, null |-> {"coordinates"}],
             [id |-> id, coordinates |-> [longitude |-> 0]],
             [id |-> id, coordinates |-> [latitude |-> 0]],
             [id |-> id, coordinates |-> [longitude |-> 0, null |-> {"latitude"}]],
             [id |-> id, coordinates |-> [latitude |-> 0, null |-> {"longitude"}]] }

(***************************************************************************)
(* Specifications: one per operation under study.  Init draws the          *)
(* arguments, the action applies the operation.                            *)
(***************************************************************************)
WalkIdle ==
    /\ loc_a = None /\ loc_b = None /\ walking_time = None /\ distance = None

OptIdle ==
    /\ previous_loc = None /\ next_loc = None
    /\ available_minutes = 0 /\ activity_minutes = 0
    /\ available_gyms = << >> /\ options = << >>

BlocksIdle ==
    /\ schedule = [classes |-> << >>]
    /\ start_of_day = HM(8, 0) /\ end_of_day = HM(18, 0)
    /\ free_blocks = << >> /\ free_time_dict = << >>

ParseIdle ==
    /\ ics_string = None /\ parsed_schedule = None

SuggestIdle ==
    /\ input_data = None /\ campus_locations = << >> /\ oracle = None
    /\ suggestions = << >>

ServeIdle ==
    /\ schedules = << >> /\ heap = << >>
    /\ add_req = [pc |-> "idle"] /\ gen_req = [pc |-> "idle"]
    /\ up_req = [pc |-> "idle"]
    /\ served = [add |-> 0, gen |-> 0, upload |-> 0]
    /\ versions = {}
    /\ history = [upload |-> FALSE, add |-> FALSE, reset |-> FALSE, looped |-> {}]

\* the variables of the operations modelled after the first four
LaterIdle == ParseIdle /\ SuggestIdle /\ ServeIdle

walkVars == <<loc_a, loc_b, walking_time, distance>>
optVars == <<previous_loc, next_loc, available_minutes, activity_minutes,
             available_gyms, options>>
blockVars == <<schedule, start_of_day, end_of_day, free_blocks, free_time_dict>>
parseVars == <<ics_string, parsed_schedule>>
suggestVars == <<input_data, campus_locations, oracle, suggestions>>
serveVars == <<schedules, heap, add_req, gen_req, up_req, served, versions, history>>
laterVars == <<parseVars, suggestVars, serveVars>>

\* ---- calculate_walking_time
InitWalk ==
    /\ pc = "call" /\ raised = "none"
    /\ loc_a \in {Loc("a", x) : x \in WalkLatitudes}
    /\ loc_b \in {Loc("b", x) : x \in WalkLatitudes}
    /\ walking_time = None /\ distance = None
    /\ OptIdle /\ BlocksIdle /\ LaterIdle

CalculateWalkingTime ==
    /\ pc = "call"
    /\ walking_time' = calculate_walking_time(loc_a, loc_b)
    /\ pc' = "done"
    /\ UNCHANGED <<loc_a, loc_b, distance, raised, optVars, blockVars, laterVars>>

SpecWalk == InitWalk /\ [][CalculateWalkingTime]_vars

\* ---- calculate_distance
InitDistance ==
    /\ pc = "call" /\ raised = "none"
    /\ loc_a \in DistanceArguments("a")
    /\ loc_b \in DistanceArguments("b")
    /\ walking_time = None /\ distance = None
    /\ OptIdle /\ BlocksIdle /\ LaterIdle

CalculateDistance ==
    /\ pc = "call"
    /\ raised' = calculate_distance_raises(loc_a, loc_b)
    /\ distance' = IF calculate_distance_raises(loc_a, loc_b) = "none"
                   THEN haversine(loc_a, loc_b) ELSE distance
    /\ pc' = "done"
    /\ UNCHANGED <<loc_a, loc_b, walking_time, optVars, blockVars, laterVars>>

SpecDistance == InitDistance /\ [][CalculateDistance]_vars

\* ---- find_optimal_gyms
InitOpt ==
    /\ pc = "call" /\ raised = "none"
    /\ previous_loc \in BUILDINGS
    /\ next_loc \in BUILDINGS
    /\ available_minutes \in AvailableDomain
    /\ activity_minutes \in OptActivityDomain
    /\ available_gyms \in GymLists
    /\ options = << >>
    /\ WalkIdle /\ BlocksIdle /\ LaterIdle

FindOptimalGyms ==
    /\ pc = "call"
    /\ options' = find_optimal_gyms(previous_loc, next_loc, available_minutes,
                                    activity_minutes, available_gyms)
    /\ raised' = IF find_optimal_gyms_raises(previous_loc, next_loc, available_minutes,
                                             activity_minutes, available_gyms)
                 THEN "ZeroDivisionError" ELSE "none"
    /\ pc' = "done"
    /\ UNCHANGED <<previous_loc, next_loc, available_minutes, activity_minutes,
                   available_gyms, walkVars, blockVars, laterVars>>

SpecOpt == InitOpt /\ [][FindOptimalGyms]_vars

\* ---- calculate_free_blocks and calculate_free_time_blocks
InitBlocks ==
    /\ pc = "call" /\ raised = "none"
    /\ schedule \in Schedules
    /\ \E w \in DayWindows : start_of_day = w[1] /\ end_of_day = w[2]
    /\ free_blocks = << >> /\ free_time_dict = << >>
    /\ WalkIdle /\ OptIdle /\ LaterIdle

\* the caller keeps the schedule and may call again with it
CalculateFreeBlocks ==
    /\ pc \in {"call", "done"}
    /\ free_blocks' = calculate_free_blocks(schedule, start_of_day, end_of_day)
    /\ free_time_dict' = calculate_free_time_blocks(schedule.classes)
    /\ schedule' = [schedule EXCEPT !.classes = classes_after_call(@)]
    /\ pc' = IF pc = "call" THEN "done" ELSE "again"
    /\ UNCHANGED <<start_of_day, end_of_day, raised, walkVars, optVars, laterVars>>

SpecBlocks == InitBlocks /\ [][CalculateFreeBlocks]_vars

\* ---- parse_ics_content
InitParse ==
    /\ pc = "call" /\ raised = "none"
    /\ ics_string \in Calendars
    /\ parsed_schedule = None
    /\ WalkIdle /\ OptIdle /\ BlocksIdle /\ SuggestIdle /\ ServeIdle

ParseIcsContent ==
    /\ pc = "call"
    /\ raised' = parse_ics_content_raises(ics_string)
    /\ parsed_schedule' = IF parse_ics_content_raises(ics_string) = "none"
                          THEN parse_ics_content(ics_string) ELSE parsed_schedule
    /\ pc' = "done"
    /\ UNCHANGED <<ics_string, walkVars, optVars, blockVars, suggestVars, serveVars>>

SpecParse == InitParse /\ [][ParseIcsContent]_vars

\* ---- GymRecommendationAI.generate_suggestions
InitSuggest ==
    /\ pc = "call" /\ raised = "none"
    /\ input_data \in InputData
    /\ campus_locations \in CampusData
    /\ oracle \in Oracles
    /\ suggestions = << >>
    /\ WalkIdle /\ OptIdle /\ BlocksIdle /\ ParseIdle /\ ServeIdle

GenerateSuggestions ==
    /\ pc = "call"
    /\ raised' = generate_suggestions_raises(campus_locations, input_data, oracle)
    /\ suggestions' =
          IF generate_suggestions_raises(campus_locations, input_data, oracle) = "none"
          THEN generate_suggestions(campus_locations, input_data, oracle)
          ELSE suggestions
    /\ pc' = "done"
    /\ UNCHANGED <<input_data, campus_locations, oracle, walkVars, optVars,
                   blockVars, parseVars, serveVars>>

SpecSuggest == InitSuggest /\ [][GenerateSuggestions]_vars

\* ---- the server: upload, add-locations and (re)generate-suggestions requests
InitServe ==
    /\ pc = "serve" /\ raised = "none"
    /\ ServeIdle
    /\ WalkIdle /\ OptIdle /\ BlocksIdle /\ ParseIdle /\ SuggestIdle

restVars == <<pc, raised, walkVars, optVars, blockVars, parseVars, suggestVars>>

\* the classes of the schedule the student is bound to
StoredClasses == heap[schedules[STUDENT]].schedule.classes

\* upload_schedule: the file is parsed; a ValueError of the parser is
\* answered 400 before anything is stored, else store_schedule binds the
\* student to a new entry, no building assigned
UploadSchedule ==
    /\ served.upload < MaxRequests
    /\ \E file_content \in UploadContents :
          IF parse_ics_content_raises(file_content) # "none"
          THEN /\ up_req' = [pc |-> "answered",
                              status |-> IF parse_ics_content_raises(file_content)
                                               = "ValueError" THEN 400 ELSE 500,
                              error |-> "Invalid ICS format"]
               /\ UNCHANGED <<schedules, heap, versions, history>>
          ELSE /\ heap' = Append(heap, new_entry(parse_ics_content(file_content)))
               /\ schedules' = store_schedule(schedules, STUDENT, Len(heap) + 1)
               /\ up_req' = [pc |-> "answered", status |-> 200, error |-> "none"]
               /\ versions' = versions
                    \cup {assignment_of(parse_ics_content(file_content).classes)}
               /\ history' = [history EXCEPT !.upload = TRUE, !.add = FALSE,
                                              !.reset = @ \/ history.add]
    /\ served' = [served EXCEPT !.upload = @ + 1]
    /\ UNCHANGED <<add_req, gen_req, restVars>>

\* add_locations up to its loop: 404 without a stored schedule, 400 when a
\* building id is unknown, else the request holds the entry get_schedule
\* returned and starts at its first class
AddLocationsBegin ==
    /\ add_req.pc \in {"idle", "answered"}
    /\ served.add < MaxRequests
    /\ \E locations \in LocationMaps :
          IF ~schedule_found(schedules, STUDENT)
          THEN /\ add_req' = [pc |-> "answered", status |-> 404,
                               error |-> "Schedule not found"]
               /\ served' = [served EXCEPT !.add = @ + 1]
               /\ UNCHANGED <<heap, versions>>
          ELSE IF invalid_buildings(ServerCampus, locations) # {}
          THEN /\ add_req' = [pc |-> "answered", status |-> 400,
                               error |-> "Invalid building IDs"]
               /\ served' = [served EXCEPT !.add = @ + 1]
               /\ heap' = [heap EXCEPT ![schedules[STUDENT]].schedule.classes =
                               classes_when_rejected(@, locations)]
               /\ UNCHANGED versions
          ELSE /\ add_req' = [pc |-> "loop", ref |-> schedules[STUDENT],
                               locations |-> locations, i |-> 1,
                               assignments_made |-> 0]
               /\ versions' = versions
                                \cup {assignment_after(StoredClasses, locations)}
               /\ UNCHANGED <<heap, served>>
    /\ UNCHANGED <<schedules, gen_req, up_req, history, restVars>>

\* one pass of 'for cls in classes': the class dict of the schedule the
\* request holds is written in place
AddLocationsAssign ==
    /\ add_req.pc = "loop"
    /\ add_req.i <= Len(heap[add_req.ref].schedule.classes)
    /\ heap' = [heap EXCEPT ![add_req.ref].schedule.classes[add_req.i] =
                    assign_building(@, add_req.locations)]
    /\ add_req' = [add_req EXCEPT
                      !.i = @ + 1,
                      !.assignments_made =
                          IF heap[add_req.ref].schedule.classes[add_req.i].course_id
                                \in DOMAIN add_req.locations
                          THEN @ + 1 ELSE @]
    /\ UNCHANGED <<schedules, gen_req, up_req, served, versions, history, restVars>>

\* after the loop: update_schedule_buildings(student_id, True) and the 200
\* answer
AddLocationsFinish ==
    /\ add_req.pc = "loop"
    /\ add_req.i > Len(heap[add_req.ref].schedule.classes)
    /\ heap' = update_schedule_buildings(schedules, heap, STUDENT)
    /\ add_req' = [pc |-> "answered", status |-> 200, error |-> "none",
                    assignments_made |-> add_req.assignments_made]
    /\ served' = [served EXCEPT !.add = @ + 1]
    /\ history' = [history EXCEPT !.add = TRUE, !.looped = @ \cup {add_req.ref}]
    /\ UNCHANGED <<schedules, gen_req, up_req, versions, restVars>>

\* generate_suggestions and regenerate_suggestion up to the loop of
\* calculate_free_blocks: 404 without a schedule, 400 while buildings_assigned
\* is False, else the request holds the entry and its classes are grouped
\* and sorted
GenerateBegin ==
    /\ gen_req.pc \in {"idle", "answered"}
    /\ served.gen < MaxRequests
    /\ \E request \in SuggestionRequests :
          IF ~schedule_found(schedules, STUDENT)
          THEN /\ gen_req' = [pc |-> "answered", status |-> 404,
                               error |-> "Schedule not found"]
               /\ served' = [served EXCEPT !.gen = @ + 1]
          ELSE IF ~heap[schedules[STUDENT]].buildings_assigned
          THEN /\ gen_req' = [pc |-> "answered", status |-> 400,
                               error |-> "Buildings not assigned"]
               /\ served' = [served EXCEPT !.gen = @ + 1]
          ELSE /\ gen_req' = [pc |-> "blocks", request |-> request,
                               ref |-> schedules[STUDENT], i |-> 1,
                               free_blocks |-> << >>]
               /\ UNCHANGED served
    /\ UNCHANGED <<schedules, heap, add_req, up_req, versions, history, restVars>>

\* one pass of the loop over adjacent classes (the calendar has one date): the
\* block dict is built from the class dicts of the held schedule as they are
\* now
GenerateBlock ==
    /\ gen_req.pc = "blocks"
    /\ gen_req.i < Len(heap[gen_req.ref].schedule.classes)
    /\ LET day_classes == walk_order(heap[gen_req.ref].schedule.classes)
           current == day_classes[gen_req.i]
           next_cls == day_classes[gen_req.i + 1]
       IN  gen_req' = [gen_req EXCEPT
                         !.i = @ + 1,
                         !.free_blocks =
                             IF has_gap(current.end, next_cls.start)
                             THEN Append(@, make_free_block(date_of(current.start),
                                                            current, next_cls))
                             ELSE @]
    /\ UNCHANGED <<schedules, heap, add_req, up_req, served, versions, history,
                   restVars>>

\* the block a regenerate request names, among the computed ones
requested_blocks(blocks, request) ==
    {k \in 1..Len(blocks) :
        /\ blocks[k].date = request.date
        /\ blocks[k].start_time = request.start_time
        /\ blocks[k].end_time = request.end_time}

\* ai_service.generate_suggestions as the handlers call it
ai_suggestions(blocks) ==
    generate_suggestions(ServerCampus,
                         [free_time_blocks |-> blocks,
                          activity_duration_minutes |-> DEFAULT_ACTIVITY,
                          activity_type |-> "gym"],
                         NoOracle)

\* the blocks go to the AI service and the answer is sent: all suggestions
\* for generate; for regenerate 404 without the named block, 400 without a
\* suggestion for it, else its best suggestion
GenerateFinish ==
    /\ gen_req.pc = "blocks"
    /\ gen_req.i >= Len(heap[gen_req.ref].schedule.classes)
    /\ LET blocks == gen_req.free_blocks
           request == gen_req.request
       IN  IF request.kind = "generate"
           THEN gen_req' = [pc |-> "answered", status |-> 200, error |-> "none",
                            free_blocks |-> blocks,
                            suggestions |-> ai_suggestions(blocks)]
           ELSE IF requested_blocks(blocks, request) = {}
           THEN gen_req' = [pc |-> "answered", status |-> 404,
                            error |-> "Time block not found"]
           ELSE LET matching_block == blocks[first_of(requested_blocks(blocks, request))]
                IN  IF ai_suggestions(<<matching_block>>) = << >>
                    THEN gen_req' = [pc |-> "answered", status |-> 400,
                                     error |-> "No suggestions available"]
                    ELSE gen_req' = [pc |-> "answered", status |-> 200,
                                     error |-> "none",
                                     free_blocks |-> <<matching_block>>,
                                     suggestions |->
                                        <<ai_suggestions(<<matching_block>>)[1]>>]
    /\ served' = [served EXCEPT !.gen = @ + 1]
    /\ UNCHANGED <<schedules, heap, add_req, up_req, versions, history, restVars>>

NextServe ==
    \/ UploadSchedule
    \/ AddLocationsBegin \/ AddLocationsAssign \/ AddLocationsFinish
    \/ GenerateBegin \/ GenerateBlock \/ GenerateFinish

\* requests served on threads of one process
SpecServe == InitServe /\ [][NextServe]_vars

\* requests served one after the other: a request is taken up only when no
\* other is being served
Quiet == add_req.pc # "loop" /\ gen_req.pc # "blocks"

ApiUploadSchedule == Quiet /\ UploadSchedule
ApiAddLocations == Quiet /\ AddLocationsBegin
ApiGenerateSuggestions == Quiet /\ GenerateBegin

NextApi ==
    \/ ApiUploadSchedule
    \/ ApiAddLocations \/ AddLocationsAssign \/ AddLocationsFinish
    \/ ApiGenerateSuggestions \/ GenerateBlock \/ GenerateFinish

SpecApi == InitServe /\ [][NextApi]_vars

(***************************************************************************)
(* Properties of find_optimal_gyms (checked under SpecOpt)                 *)
(***************************************************************************)
\* position of a gym in the candidate list (candidates are distinct)
IndexOf(gym) == CHOOSE i \in 1..Len(available_gyms) : available_gyms[i] = gym

TimeTo(gym) == calculate_walking_time(previous_loc, gym)
TimeFrom(gym) == calculate_walking_time(gym, next_loc)

\* the feasibility inequality of the claim, for candidate D
Inequality(D) ==
    TimeTo(D) + activity_minutes + TimeFrom(D) + 5 <= available_minutes

\* C1: find_optimal_gyms returns exactly the candidates that satisfy
\* time_to + activity_minutes + time_from + 5 <= available_minutes: every
\* returned option satisfies the inequality (with the walking times it reports),
\* and every candidate that satisfies it is returned, once.
C1_ExactlyTheFeasible ==
    pc = "done" =>
        /\ raised = "none"
        /\ \A i \in 1..Len(options) :
              /\ \E j \in 1..Len(available_gyms) : available_gyms[j] = options[i].gym
              /\ options[i].time_to_gym = TimeTo(options[i].gym)
              /\ options[i].time_from_gym = TimeFrom(options[i].gym)
              /\ options[i].time_to_gym + activity_minutes
                    + options[i].time_from_gym + 5 <= available_minutes
        /\ \A j \in 1..Len(available_gyms) :
              Inequality(available_gyms[j]) =>
                 Cardinality({i \in 1..Len(options) :
                                 options[i].gym = available_gyms[j]}) = 1
        /\ Len(options) = Cardinality({j \in 1..Len(available_gyms) :
                                          Inequality(available_gyms[j])})

\* a call that returned two options and left a candidate out
C1_Witness ==
    /\ pc = "done"
    /\ Len(options) = 2
    /\ Len(available_gyms) = 3
    /\ \E j \in 1..3 : ~Inequality(available_gyms[j])
                        /\ TimeTo(available_gyms[j]) + activity_minutes
                              + TimeFrom(available_gyms[j]) <= available_minutes

\* C2: the returned list is the stable sort of the feasible options by score:
\* scores never decrease along the list, and options of equal score keep the
\* relative order their gyms had in the candidate list.
C2_StableSortByScore ==
    pc = "done" =>
        \A i, j \in 1..Len(options) :
            i < j =>
                /\ RatLeq(options[i].score, options[j].score)
                /\ RatEq(options[i].score, options[j].score)
                      => IndexOf(options[i].gym) < IndexOf(options[j].gym)

\* a result with a tie, in which the sort also moved an option forward
C2_Witness ==
    /\ pc = "done"
    /\ \E i, j \in 1..Len(options) :
          i < j /\ RatEq(options[i].score, options[j].score)
    /\ \E i, j \in 1..Len(options) :
          i < j /\ IndexOf(options[i].gym) > IndexOf(options[j].gym)

\* the four components of the claim, each times 10 * available_minutes
ClaimSpare(o) == available_minutes - (o.time_to_gym + activity_minutes + o.time_from_gym)
ClaimUsed(o) == o.time_to_gym + activity_minutes + o.time_from_gym + 5
ClaimCommute(o) == 20 * (o.time_to_gym + o.time_from_gym) * available_minutes
ClaimImbalance(o) == 5 * Abs(o.time_to_gym - o.time_from_gym) * available_minutes
ClaimSpareComponent(o) ==
    IF ClaimSpare(o) < 5 THEN 200 * available_minutes
    ELSE IF ClaimSpare(o) > 20 THEN 3 * ClaimSpare(o) * available_minutes
    ELSE 0
ClaimUtilizationComponent(o) ==
    IF 7 * available_minutes <= 10 * ClaimUsed(o)
          /\ 10 * ClaimUsed(o) <= 9 * available_minutes
    THEN -50 * available_minutes
    ELSE IF 10 * ClaimUsed(o) > 9 * available_minutes
    THEN 100 * available_minutes
    ELSE 100 * (available_minutes - ClaimUsed(o))

\* C3: the score stored in every returned option is
\* 2.0*(outbound+return) + 0.5*|outbound-return| + spare component
\* + utilization component, with spare = available - (outbound+activity+return)
\* and u = (outbound+activity+return+5)/available.
C3_ScoreIsSumOfComponents ==
    pc = "done" =>
        \A i \in 1..Len(options) :
            /\ options[i].spare_time = ClaimSpare(options[i])
            /\ RatEq(options[i].score,
                     << ClaimCommute(options[i]) + ClaimImbalance(options[i])
                          + ClaimSpareComponent(options[i])
                          + ClaimUtilizationComponent(options[i]),
                        10 * available_minutes >>)

\* a result holding an option exactly at u = 0.90 and another above 0.90
C3_Witness ==
    /\ pc = "done"
    /\ \E i \in 1..Len(options) : 10 * ClaimUsed(options[i]) = 9 * available_minutes
    /\ \E i \in 1..Len(options) : 10 * ClaimUsed(options[i]) > 9 * available_minutes

\* the boundary values of the scorer, each met by a returned option
C3_AtSpare5 == pc = "done" /\ \E i \in 1..Len(options) : options[i].spare_time = 5
C3_AtSpare20 == pc = "done" /\ \E i \in 1..Len(options) : options[i].spare_time = 20
C3_AtUtilization70 ==
    pc = "done" /\ \E i \in 1..Len(options) :
                      10 * ClaimUsed(options[i]) = 7 * available_minutes

(***************************************************************************)
(* Properties of calculate_walking_time (checked under SpecWalk)           *)
(***************************************************************************)
\* the exact buffered walking time distance_miles / 3.5 * 60 * 1.2 of the call,
\* as the fraction ExactNum / ExactDen of a minute
ExactNum == Abs(loc_a.coordinates.latitude - loc_b.coordinates.latitude) * 60 * 12
ExactDen == 1000 * 35

\* C8: calculate_walking_time returns the smallest whole number of minutes that
\* is >= distance_miles / 3.5 * 60 * 1.2: never below the exact time, less than
\* one minute above it, and 0 only for distance 0.
C8_RoundedUp ==
    pc = "done" =>
        /\ walking_time * ExactDen >= ExactNum
        /\ (walking_time - 1) * ExactDen < ExactNum
        /\ walking_time = 0 => ExactNum = 0

\* 0.049 miles: 1.008 minutes, returned as 2
C8_Witness ==
    /\ pc = "done"
    /\ ExactNum > ExactDen /\ ExactNum < 2 * ExactDen
    /\ walking_time = 2

\* a distance whose exact time is a whole number of minutes (0.875 miles: 18)
C8_AtWholeMinutes == pc = "done" /\ ExactNum = 18 * ExactDen /\ walking_time = 18

(***************************************************************************)
(* Scenario C and the reported utilization (checked under SpecOpt)         *)
(***************************************************************************)
\* a candidate 0.2 miles from the previous class and 0.05 miles from the next
\* one, in a 90 minute gap with a 60 minute activity
ScenarioC(gym) ==
    /\ \E j \in 1..Len(available_gyms) : available_gyms[j] = gym
    /\ calculate_distance(previous_loc, gym) = 200
    /\ calculate_distance(gym, next_loc) = 50
    /\ available_minutes = 90
    /\ activity_minutes = 60

OptionsOf(gym) == {i \in 1..Len(options) : options[i].gym = gym}

\* C9 as stated: in scenario C the walking times are 4 and 1 minutes, the
\* destination is feasible and the returned option has spare = 20.
C9_AsStated ==
    pc = "done" =>
        \A gym \in GYMS :
            ScenarioC(gym) =>
                \E i \in OptionsOf(gym) :
                    /\ options[i].time_to_gym = 4
                    /\ options[i].time_from_gym = 1
                    /\ options[i].spare_time = 20

\* C9 amended: in scenario C the walking times are 5 minutes outbound and
\* 2 minutes return (both rounded up), the destination is feasible
\* (5+60+2+5 = 72 <= 90) and the returned option has spare = 23.
C9_ScenarioC ==
    pc = "done" =>
        \A gym \in GYMS :
            ScenarioC(gym) =>
                /\ 5 + 60 + 2 + 5 <= available_minutes
                /\ \E i \in OptionsOf(gym) :
                      /\ options[i].time_to_gym = 5
                      /\ options[i].time_from_gym = 2
                      /\ options[i].spare_time = 23

C9_Witness ==
    /\ pc = "done"
    /\ \E gym \in GYMS : ScenarioC(gym) /\ OptionsOf(gym) # {}

\* C10: the utilization reported in each option is the fraction
\* (outbound + activity_minutes + return + 5) / available_minutes that the
\* scorer uses.  The reported value counts tenths of a percent, so it is
\* compared to the fraction up to the rounding to that digit.
C10_ReportedIsScorerUtilization ==
    pc = "done" =>
        \A i \in 1..Len(options) :
            2 * Abs(options[i].utilization * available_minutes
                      - 1000 * (options[i].time_to_gym + activity_minutes
                                  + options[i].time_from_gym + 5))
                <= available_minutes

\* what the code reports: (outbound + activity_minutes + return) / available,
\* without the buffer, rounded to a tenth of a percent
C10_ReportedLeavesBufferOut ==
    pc = "done" =>
        \A i \in 1..Len(options) :
            2 * Abs(options[i].utilization * available_minutes
                      - 1000 * (options[i].time_to_gym + activity_minutes
                                  + options[i].time_from_gym))
                <= available_minutes

(***************************************************************************)
(* Properties of the free-block computations (checked under SpecBlocks)    *)
(***************************************************************************)
Dates == {date_of(schedule.classes[i].start) : i \in 1..Len(schedule.classes)}

\* the classes of a date in start order
DayClasses(d) == sort_by_start(classes_on(schedule.classes, d))

BlocksOn(d) == {k \in 1..Len(free_blocks) : free_blocks[k].date = d}

\* C4 as stated: every free block calculate_free_blocks emits has
\* available_minutes > 0, start strictly before end, and available_minutes
\* equal to the length of the block in minutes.
C4_BlocksArePositive ==
    pc = "done" =>
        \A k \in 1..Len(free_blocks) :
            /\ free_blocks[k].available_minutes > 0
            /\ free_blocks[k].start_time < free_blocks[k].end_time
            /\ free_blocks[k].available_minutes
                  = free_blocks[k].end_time - free_blocks[k].start_time

\* what does hold of every emitted block: it is never negative, and is the
\* whole minutes between the two instants
C4_BlocksAreNonNegative ==
    pc = "done" =>
        \A k \in 1..Len(free_blocks) :
            /\ free_blocks[k].available_minutes >= 0
            /\ free_blocks[k].start_time <= free_blocks[k].end_time

\* the blocks the legacy script emits for a date ('No free time' is none)
LegacyCount(d) ==
    IF free_time_dict[d] = <<"No free time">> THEN 0 ELSE Len(free_time_dict[d])

GapPairs(d) ==
    {i \in 1..(Len(DayClasses(d)) - 1) : DayClasses(d)[i].end < DayClasses(d)[i + 1].start}

LeadingDue(d) == IF day_start < time_of(DayClasses(d)[1].start) THEN 1 ELSE 0
TrailingDue(d) ==
    IF time_of(DayClasses(d)[Len(DayClasses(d))].end) < day_end THEN 1 ELSE 0

C5_AtOverlap ==
    /\ pc = "done"
    /\ Len(free_blocks) > 0
    /\ \E d \in Dates : \E i \in 1..(Len(DayClasses(d)) - 1) :
          DayClasses(d)[i].end > DayClasses(d)[i + 1].start

\* C6 as stated, for calculate_free_blocks with its day window: a date with a
\* class gets a leading block [day_start, first.start) with no preceding class
\* when its first class starts after day_start, and a trailing block
\* [last.end, day_end) with no following class when its last class ends before
\* day_end; dates without a class get no block.
C6_LeadingAndTrailing ==
    pc = "done" =>
        /\ \A d \in Dates :
              LET first == DayClasses(d)[1]
                  last == DayClasses(d)[Len(DayClasses(d))]
              IN  /\ time_of(first.start) > start_of_day * 60 =>
                        \E k \in BlocksOn(d) :
                            /\ free_blocks[k].start_time = start_of_day
                            /\ free_blocks[k].end_time = strftime_HM(first.start)
                            /\ free_blocks[k].previous_class_name = None
                  /\ time_of(last.end) < end_of_day * 60 =>
                        \E k \in BlocksOn(d) :
                            /\ free_blocks[k].start_time = strftime_HM(last.end)
                            /\ free_blocks[k].end_time = end_of_day
                            /\ free_blocks[k].next_class_name = None
        /\ \A k \in 1..Len(free_blocks) : free_blocks[k].date \in Dates

\* the legacy script does emit both blocks, for its fixed 08:00-18:00 window
C6_LegacyLeadingAndTrailing ==
    pc = "done" =>
        /\ DOMAIN free_time_dict = Dates
        /\ \A d \in Dates :
              LET first == DayClasses(d)[1]
                  last == DayClasses(d)[Len(DayClasses(d))]
                  out == free_time_dict[d]
              IN  /\ time_of(first.start) > day_start =>
                        out[1] = <<HM(8, 0), strftime_HM(first.start)>>
                  /\ time_of(last.end) < day_end =>
                        out[Len(out)] = <<strftime_HM(last.end), HM(18, 0)>>

\* scenario B: the only classes of the date are 08:00-08:50 and 10:20-11:10
ScenarioB(d) ==
    /\ Len(DayClasses(d)) = 2
    /\ DayClasses(d)[1].start = At(d, 8, 0, 0) /\ DayClasses(d)[1].end = At(d, 8, 50, 0)
    /\ DayClasses(d)[2].start = At(d, 10, 20, 0) /\ DayClasses(d)[2].end = At(d, 11, 10, 0)
    /\ start_of_day = HM(8, 0) /\ end_of_day = HM(18, 0)

\* C7: in scenario B calculate_free_blocks yields exactly one free block for
\* the date, 08:50-10:20 with available_minutes = 90, between the 08:00 class
\* and the 10:20 class.
C7_ScenarioB ==
    pc = "done" =>
        \A d \in Dates :
            ScenarioB(d) =>
                /\ Cardinality(BlocksOn(d)) = 1
                /\ \A k \in BlocksOn(d) :
                      /\ free_blocks[k].start_time = HM(8, 50)
                      /\ free_blocks[k].end_time = HM(10, 20)
                      /\ free_blocks[k].available_minutes = 90
                      /\ free_blocks[k].previous_class_name = DayClasses(d)[1].course_id
                      /\ free_blocks[k].next_class_name = DayClasses(d)[2].course_id

\* scenario B with the 10:20 class listed before the 08:00 class
C7_Witness ==
    /\ pc = "done"
    /\ \E d \in Dates : ScenarioB(d)
    /\ schedule.classes[1].start = At(0, 10, 20, 0)

(***************************************************************************)
(* Properties of calculate_distance (checked under SpecDistance)           *)
(***************************************************************************)
\* the inputs the contract calls invalid
LacksCoordinates(loc) ==
    \/ ~has_key(loc, "coordinates") \/ is_null(loc, "coordinates")
    \/ ~has_key(loc.coordinates, "latitude") \/ ~has_key(loc.coordinates, "longitude")

NullCoordinate(loc) ==
    ~LacksCoordinates(loc)
      /\ (is_null(loc.coordinates, "latitude") \/ is_null(loc.coordinates, "longitude"))

OutOfRange(loc) ==
    /\ ~LacksCoordinates(loc) /\ ~NullCoordinate(loc)
    /\ \/ Abs(loc.coordinates.latitude) > 90 * MILLIMILES_PER_DEGREE
       \/ Abs(loc.coordinates.longitude) > 180

InvalidCoordinates(loc) == LacksCoordinates(loc) \/ NullCoordinate(loc) \/ OutOfRange(loc)

\* C11: calculate_distance fails with the invalid-coordinates error
\* (ValueError), and returns no value, whenever either location lacks a
\* coordinates record, lacks a latitude or longitude field, has a null
\* latitude/longitude, or has a latitude outside [-90, 90] or a longitude
\* outside [-180, 180].
C11_InvalidCoordinatesRejected ==
    (pc = "done" /\ (InvalidCoordinates(loc_a) \/ InvalidCoordinates(loc_b)))
        => raised = "ValueError"

\* what the code does reject: a missing coordinates record or field
C11_MissingFieldRejected ==
    pc = "done" =>
        /\ (LacksCoordinates(loc_a) \/ LacksCoordinates(loc_b)) <=> raised = "ValueError"
        /\ raised = "TypeError" =>
              NullCoordinate(loc_a) \/ NullCoordinate(loc_b)

\* a latitude of more than 90 degrees that came back as a distance
C11_OutOfRangeGetsDistance ==
    /\ pc = "done" /\ raised = "none"
    /\ OutOfRange(loc_a)
    /\ distance > 0

\* a null latitude that ended in TypeError
C11_NullGetsTypeError ==
    /\ pc = "done" /\ raised = "TypeError"
    /\ NullCoordinate(loc_a) /\ ~InvalidCoordinates(loc_b)

(***************************************************************************)
(* Properties of parse_ics_content (checked under SpecParse)               *)
(***************************************************************************)
Components == ics_string.components

\* the recurring event definitions of the calendar
Recurring == {i \in 1..Len(Components) :
                 /\ Components[i].name = "VEVENT"
                 /\ "dtend" \in DOMAIN Components[i]
                 /\ "rrule" \in DOMAIN Components[i]}

\* those whose rule text parses under neither path
Unparsable == {i \in Recurring : Components[i].rrule.text = "malformed"}

Parsable(component) == ~component_raises(component)

\* the events of definition i in the returned schedule (summaries are distinct)
EventsOf(i) ==
    {k \in 1..Len(parsed_schedule.classes) :
        parsed_schedule.classes[k].course_id = Components[i].summary}

\* C12: when one recurring definition of a calendar has rule text that parses
\* under neither the primary nor the retry path, parse_ics_content drops only
\* that definition and returns all events of the remaining definitions; the
\* failure does not abort the whole schedule.
C12_UnparsableRuleIsIsolated ==
    (pc = "done" /\ ics_string.well_formed /\ Unparsable # {}) =>
        /\ raised = "none"
        /\ parsed_schedule.classes = classes_of(SelectSeq(Components, Parsable))

\* what the code does: the ValueError of the retry leaves parse_ics_content,
\* and no schedule is returned
C12_UnparsableRuleAbortsParse ==
    pc = "done" =>
        (raised = "ValueError" <=> (~ics_string.well_formed \/ Unparsable # {}))

\* a calendar with a single event and an unparsable recurring definition
C12_AtUnparsableWithOthers ==
    /\ pc = "done"
    /\ Len(Components) = 2
    /\ Unparsable = {2}
    /\ events_of(Components[1]) # << >>

\* C13: every occurrence produced by recurrence expansion has
\* end - start equal to the anchor's end - start and carries exactly the
\* timezone offset of the anchor start: occurrences of an aware anchor are
\* aware with that same offset, occurrences of a naive anchor are naive.
C13_DurationAndOffsetOfAnchor ==
    (pc = "done" /\ raised = "none") =>
        \A i \in Recurring : \A k \in EventsOf(i) :
            LET anchor == Components[i]
                e == parsed_schedule.classes[k]
            IN  /\ e.end - e.start = anchor.dtend - anchor.dtstart
                /\ (e.tzinfo = NoTzinfo) <=> (anchor.tzinfo = NoTzinfo)
                /\ utcoffset(e.tzinfo, e.start) = utcoffset(anchor.tzinfo, anchor.dtstart)

\* what the code keeps: the duration and the tzinfo object of the anchor
C13_DurationAndTzinfoOfAnchor ==
    (pc = "done" /\ raised = "none") =>
        \A i \in Recurring : \A k \in EventsOf(i) :
            LET anchor == Components[i]
                e == parsed_schedule.classes[k]
            IN  /\ e.end - e.start = anchor.dtend - anchor.dtstart
                /\ e.tzinfo = anchor.tzinfo

\* a weekly class anchored in standard time with an occurrence in daylight
\* saving time
C13_AtDstBoundary ==
    /\ pc = "done" /\ raised = "none"
    /\ \E i \in Recurring : \E k \in EventsOf(i) :
          /\ Components[i].tzinfo.std # Components[i].tzinfo.dst
          /\ date_of(Components[i].dtstart) < DstStartDay
          /\ date_of(parsed_schedule.classes[k].start) >= DstStartDay

\* the rules with neither COUNT nor UNTIL
Unterminated == {i \in Recurring :
                    /\ "count" \notin DOMAIN Components[i].rrule
                    /\ "until" \notin DOMAIN Components[i].rrule}

\* C14: recurrence expansion ends with a finite occurrence list, and a rule
\* that has neither an explicit count nor an explicit end date is rejected or
\* capped: its expansion does not run on to the end of the calendar.
C14_UnterminatedRuleRejectedOrCapped ==
    (pc = "done" /\ raised = "none") =>
        \A i \in Unterminated : \A k \in EventsOf(i) :
            parsed_schedule.classes[k].start
               + Components[i].rrule.freq * SecondsPerDay <= LastInstant

\* a rule with COUNT or UNTIL stops there
C14_TerminatedRuleStops ==
    (pc = "done" /\ raised = "none") =>
        \A i \in Recurring \ Unterminated :
            /\ "count" \in DOMAIN Components[i].rrule =>
                   Cardinality(EventsOf(i)) <= Components[i].rrule.count
            /\ "until" \in DOMAIN Components[i].rrule =>
                   \A k \in EventsOf(i) :
                       parsed_schedule.classes[k].start <= Components[i].rrule.until

(***************************************************************************)
(* Properties of generate_suggestions (checked under SpecSuggest)          *)
(***************************************************************************)
Blocks == input_data.free_time_blocks
Activity == input_data.activity_duration_minutes
Gyms == get_locations_by_type(campus_locations, "gym")

\* the oracle is unconfigured, raises, times out, answers with an error or
\* answers with an empty suggestion list
OracleFails ==
    \/ ~oracle.api_key
    \/ oracle.outcome \in {"raises", "timeout", "http_error"}
    \/ oracle.suggestions = << >>

\* the request reaches the oracle: it has blocks, and the campus has gyms
ReachesOracle == Blocks # << >> /\ Gyms # << >>

Resolved(block) ==
    /\ \E i \in 1..Len(campus_locations) :
          campus_locations[i].id = block.previous_class_location
    /\ \E i \in 1..Len(campus_locations) :
          campus_locations[i].id = block.next_class_location

BuildingOf(id) ==
    CHOOSE l \in {campus_locations[i] : i \in 1..Len(campus_locations)} : l.id = id

\* the gap is long enough for the activity with its commute estimate and buffer
Suitable(block) == block.available_minutes >= 20 + Activity + 5

\* the ranked feasible options of a block
OptionsOfBlock(block) ==
    find_optimal_gyms(BuildingOf(block.previous_class_location),
                      BuildingOf(block.next_class_location),
                      block.available_minutes, Activity, Gyms)

\* what identifies a suggestion built from an option: block, destination, rank
\* and commute
Essence(sg) ==
    <<sg.date, sg.start_time, sg.location_id, sg.rank, sg.commute_info.time_to,
      sg.commute_info.time_from, sg.commute_info.spare_time>>

TopOfBlock(block) ==
    IF Suitable(block) /\ Resolved(block)
    THEN LET opts == OptionsOfBlock(block)
         IN  [k \in 1..(IF Len(opts) < 3 THEN Len(opts) ELSE 3) |->
                <<block.date, block.start_time, opts[k].gym.id, k,
                  opts[k].time_to_gym, opts[k].time_from_gym, opts[k].spare_time>>]
    ELSE << >>

\* the rule-based result for the first n blocks
RECURSIVE RuleBased(_)
RuleBased(n) == IF n = 0 THEN << >> ELSE RuleBased(n - 1) \o TopOfBlock(Blocks[n])

\* C15: whenever the oracle is unconfigured, raises, times out, or returns an
\* error or an empty suggestion list, generate_suggestions returns exactly the
\* result of the rule-based path (the top feasible options of
\* find_optimal_gyms for each suitable block, in block order) and raises no
\* error.
C15_FallsBackToRuleBased ==
    (pc = "done" /\ OracleFails) =>
        /\ raised = "none"
        /\ [k \in 1..Len(suggestions) |-> Essence(suggestions[k])]
              = (IF Gyms = << >> THEN << >> ELSE RuleBased(Len(Blocks)))

\* the oracle timed out and the rule-based path produced the top three of four
\* feasible gyms for one block and nothing for an unsuitable one
C15_Witness ==
    /\ pc = "done"
    /\ oracle.outcome = "timeout"
    /\ Len(Blocks) = 2
    /\ Len(suggestions) = 3
    /\ \E i \in 1..2 : Resolved(Blocks[i]) /\ Suitable(Blocks[i])
                         /\ Len(OptionsOfBlock(Blocks[i])) = 4
    /\ \E i \in 1..2 : ~Suitable(Blocks[i])

\* each way the oracle can fail, met by a call that fell back to suggestions
C15_AtUnconfigured == pc = "done" /\ ~oracle.api_key /\ suggestions # << >>
C15_AtRaises == pc = "done" /\ oracle.outcome = "raises" /\ suggestions # << >>
C15_AtHttpError == pc = "done" /\ oracle.outcome = "http_error" /\ suggestions # << >>
C15_AtEmptyList ==
    /\ pc = "done" /\ oracle.api_key /\ oracle.outcome = "ok"
    /\ oracle.suggestions = << >> /\ suggestions # << >>

\* the entries of the result that name a block
EntriesOf(block) ==
    {k \in 1..Len(suggestions) :
        suggestions[k].date = block.date /\ suggestions[k].start_time = block.start_time}

\* C16: for every free block passed to suggestion generation, the outcome
\* 'this gap could not be analyzed because the previous or next class has no
\* resolvable location' is reported in the result: the block is not answered
\* with the empty result that 'no destination is feasible' gets.
C16_UnresolvedBlockIsReported ==
    (pc = "done" /\ OracleFails /\ ReachesOracle) =>
        \A i \in 1..Len(Blocks) :
            ~Resolved(Blocks[i]) => EntriesOf(Blocks[i]) # {}

\* a suitable gap with known buildings and no feasible destination: nothing
\* in the result names it
C16_AtNoFeasible ==
    /\ pc = "done" /\ OracleFails /\ ReachesOracle
    /\ \E i \in 1..Len(Blocks) :
          /\ Resolved(Blocks[i]) /\ Suitable(Blocks[i])
          /\ OptionsOfBlock(Blocks[i]) = << >>
          /\ EntriesOf(Blocks[i]) = {}

\* a suitable gap whose next class has no resolvable location: nothing in the
\* result names it either
C16_AtUnresolved ==
    /\ pc = "done" /\ OracleFails /\ ReachesOracle
    /\ \E i \in 1..Len(Blocks) :
          /\ ~Resolved(Blocks[i]) /\ Suitable(Blocks[i])
          /\ EntriesOf(Blocks[i]) = {}

\* C18: every suggestion built from a ranked commute option has
\* confidence_score = max(0.5, 1.0 - 0.15*(rank-1)) (in hundredths), where
\* rank is its 1-based position among the options of its free block; the ranks
\* within one block are 1, 2, ... in score order with no gaps.
C18_ConfidenceFromRank ==
    (pc = "done" /\ OracleFails) =>
        /\ \A k \in 1..Len(suggestions) :
              LET r == suggestions[k].rank
              IN  suggestions[k].confidence_score
                    = (IF 100 - 15 * (r - 1) > 50 THEN 100 - 15 * (r - 1) ELSE 50)
        /\ \A i \in 1..Len(Blocks) :
              LET entries == EntriesOf(Blocks[i])
              IN  /\ {suggestions[k].rank : k \in entries} = 1..Cardinality(entries)
                  /\ \A k, l \in entries :
                        k < l => suggestions[k].rank < suggestions[l].rank
                  /\ \A k \in entries :
                        suggestions[k].location_id
                          = OptionsOfBlock(Blocks[i])[suggestions[k].rank].gym.id

\* two blocks with suggestions, one of them with ranks 1, 2 and 3
C18_Witness ==
    /\ pc = "done" /\ OracleFails
    /\ Len(Blocks) = 2
    /\ Cardinality(EntriesOf(Blocks[1])) = 3
    /\ EntriesOf(Blocks[2]) # {}
    /\ \E k \in 1..Len(suggestions) :
          suggestions[k].rank = 3 /\ suggestions[k].confidence_score = 70

\* the option a rule-based suggestion was built from
OptionOfEntry(k) ==
    LET block == CHOOSE b \in {Blocks[i] : i \in 1..Len(Blocks)} : k \in EntriesOf(b)
    IN  [ block |-> block, option |-> OptionsOfBlock(block)[suggestions[k].rank] ]

\* the scorer gave the option the sweet-spot reward: 0.70 <= u <= 0.90 with
\* u = (outbound + activity + return + 5) / available
SweetSpot(k) ==
    LET o == OptionOfEntry(k).option
        A == OptionOfEntry(k).block.available_minutes
        used == o.time_to_gym + Activity + o.time_from_gym + 5
    IN  70 * A <= 100 * used /\ 100 * used <= 90 * A

Praised(k) ==
    suggestions[k].reasoning.utilization
        \in {"Great use of your free time", "Efficient time usage"}

\* C19: the rationale is driven by the scorer's thresholds: a suggestion has
\* a utilization praise phrase exactly when the scorer gave its option the
\* sweet-spot reward, and the tight-schedule phrase exactly when the scorer
\* applied the spare < 5 penalty.
C19_RationaleFollowsScorer ==
    (pc = "done" /\ OracleFails) =>
        \A k \in 1..Len(suggestions) :
            /\ Praised(k) <=> SweetSpot(k)
            /\ (suggestions[k].reasoning.spare = "Tight schedule - be prompt")
                  <=> (OptionOfEntry(k).option.spare_time < 5)

\* what holds: the tight-schedule phrase goes with spare < 5 (no returned
\* option has it), and praise goes with a reported utilization of 70% or more
C19_RationaleFollowsReported ==
    (pc = "done" /\ OracleFails) =>
        \A k \in 1..Len(suggestions) :
            /\ (suggestions[k].reasoning.spare = "Tight schedule - be prompt")
                  <=> (OptionOfEntry(k).option.spare_time < 5)
            /\ Praised(k) <=> (OptionOfEntry(k).option.utilization >= 700)

\* an option in the scorer's sweet spot without praise, and a praised option
\* the scorer penalised for over-packing
C19_AtSweetSpotUnpraised ==
    pc = "done" /\ OracleFails
      /\ \E k \in 1..Len(suggestions) : SweetSpot(k) /\ ~Praised(k)
C19_AtPraisedOverPacked ==
    pc = "done" /\ OracleFails
      /\ \E k \in 1..Len(suggestions) : Praised(k) /\ ~SweetSpot(k)

ReadFrom(v) ==
    \A k \in 1..Len(gen_req.free_blocks) :
        /\ gen_req.free_blocks[k].previous_class_location
              = v[gen_req.free_blocks[k].previous_class_name]
        /\ gen_req.free_blocks[k].next_class_location
              = v[gen_req.free_blocks[k].next_class_name]

Answered200 == gen_req.pc = "answered" /\ gen_req.status = 200

\* C17: when an add-locations request and a generate-suggestions request of
\* the same student are served concurrently, the suggestion computation works
\* on its own snapshot of the schedule: the building_id values it reads are
\* all from before an assignment or all from after it, never a mixture.
C17_ReadsOneSnapshot ==
    Answered200 => \E v \in versions : ReadFrom(v)

\* a generate-suggestions request answered while an add-locations request was
\* in its loop, with blocks that mix two assignments
C17_AtMixture ==
    /\ Answered200
    /\ add_req.pc = "loop"
    /\ ~\E v \in versions : ReadFrom(v)

\* without an add-locations request in flight the reads are one snapshot
C17_AloneReadsOneSnapshot ==
    (Answered200 /\ served.add = 1 /\ add_req.pc = "answered")
        => \E v \in versions : ReadFrom(v)

(***************************************************************************)
(* Free blocks against the classes of their date (checked under SpecBlocks)*)
(***************************************************************************)
\* block k and class c share some minute of the day (times as the block
\* reports them: whole minutes, seconds dropped)
Overlaps(k, c) ==
    /\ strftime_HM(c.end) > free_blocks[k].start_time
    /\ strftime_HM(c.start) < free_blocks[k].end_time

ClassesOn(d) == {DayClasses(d)[i] : i \in 1..Len(DayClasses(d))}

\* C25: no free block emitted by calculate_free_blocks overlaps any class of
\* the same date: for every emitted block [s, e) and every class c of that
\* date, c.end <= s or c.start >= e, including when classes overlap or one
\* class contains another.
C25_NoBlockOverlapsAClass ==
    pc = "done" =>
        \A k \in 1..Len(free_blocks) :
            \A c \in ClassesOn(free_blocks[k].date) : ~Overlaps(k, c)

\* a block emitted between two classes that both lie inside a third one
C25_AtContainment ==
    /\ pc = "done"
    /\ \E k \in 1..Len(free_blocks) :
          \E c \in ClassesOn(free_blocks[k].date) :
              /\ strftime_HM(c.start) < free_blocks[k].start_time
              /\ strftime_HM(c.end) > free_blocks[k].end_time

\* what the loop does ensure: a block overlaps neither of the two classes it
\* lies between
C25_ClearOfItsNeighbours ==
    pc = "done" =>
        \A k \in 1..Len(free_blocks) :
            \A c \in ClassesOn(free_blocks[k].date) :
                c.course_id \in {free_blocks[k].previous_class_name,
                                 free_blocks[k].next_class_name}
                    => ~Overlaps(k, c)

(***************************************************************************)
(* The spare time of returned options (checked under SpecOpt)              *)
(***************************************************************************)
\* C26: every option returned by find_optimal_gyms with activity_minutes >= 0
\* has spare_time >= 5 and available_minutes > 0, so the utilization division
\* never divides by zero and the scorer's 'spare < 5' penalty of 20 is never
\* applied to a returned option.
C26_ReturnedOptionsKeepTheBuffer ==
    (pc = "done" /\ activity_minutes >= 0) =>
        /\ raised = "none"
        /\ \A i \in 1..Len(options) :
              /\ options[i].spare_time >= 5
              /\ available_minutes > 0
              /\ spare_penalty_x10(options[i].spare_time)
                    \in {0, 3 * options[i].spare_time}

\* no activity, no walking and a gap of exactly the buffer: the option is
\* returned with spare_time = 5
C26_Witness ==
    /\ pc = "done"
    /\ activity_minutes = 0
    /\ available_minutes = 5
    /\ \E i \in 1..Len(options) :
          options[i].spare_time = 5 /\ options[i].total_commute = 0

\* a gap of 0 minutes with no activity and no walking: nothing is returned
C26_AtEmptyGap ==
    /\ pc = "done"
    /\ activity_minutes = 0 /\ available_minutes = 0
    /\ \E j \in 1..Len(available_gyms) :
          TimeTo(available_gyms[j]) + TimeFrom(available_gyms[j]) = 0
    /\ options = << >>

(***************************************************************************)
(* Ranking against walking time (checked under SpecOpt)                    *)
(***************************************************************************)
\* option a walks no longer than option b on either leg, and less on one
WalksLess(a, b) ==
    /\ a.time_to_gym <= b.time_to_gym
    /\ a.time_from_gym <= b.time_from_gym
    /\ a.total_commute < b.total_commute

\* C27: ranking is monotone in walking time: for the same gap and activity
\* duration, if feasible gym A has time_to <= and time_from <= those of
\* feasible gym B with at least one strictly smaller, then A's score is not
\* greater than B's, so A is never ranked after B.
C27_MonotoneInWalkingTime ==
    pc = "done" =>
        \A i, j \in 1..Len(options) :
            WalksLess(options[i], options[j]) =>
                /\ RatLeq(options[i].score, options[j].score)
                /\ i < j

\* a result in which the option that walks less on both legs is ranked after
\* the one that walks more
C27_AtNearerRankedAfter ==
    /\ pc = "done"
    /\ \E i, j \in 1..Len(options) :
          WalksLess(options[i], options[j]) /\ i > j

\* what the weights do ensure: of two options that walk equally far on one
\* leg and whose spare time and utilization fall in the same bands of the
\* scorer, the one that walks less is ranked first
SameBands(a, b) ==
    /\ a.spare_time <= 20 /\ b.spare_time <= 20
    /\ utilization_bonus_x10A(a.total_commute + activity_minutes + SAFETY_BUFFER,
                              available_minutes)
         = utilization_bonus_x10A(b.total_commute + activity_minutes + SAFETY_BUFFER,
                                  available_minutes)

C27_MonotoneWithinBands ==
    pc = "done" =>
        \A i, j \in 1..Len(options) :
            (WalksLess(options[i], options[j]) /\ SameBands(options[i], options[j]))
                => RatLt(options[i].score, options[j].score) /\ i < j

(***************************************************************************)
(* Feasibility of what generate_suggestions returns (checked under         *)
(* SpecSuggest)                                                            *)
(***************************************************************************)
\* the feasibility inequality for a block with known buildings and a gym
FeasibleFor(block, gym, activity) ==
    calculate_walking_time(BuildingOf(block.previous_class_location), gym)
        + activity
        + calculate_walking_time(gym, BuildingOf(block.next_class_location))
        + 5 <= block.available_minutes

HasFeasibleGym(block) ==
    \E j \in 1..Len(Gyms) : FeasibleFor(block, Gyms[j], Activity)

\* C28: in the rule-based path, every free block with resolvable previous and
\* next locations for which at least one gym satisfies the feasibility
\* inequality (time_to + activity + time_from + 5 <= available_minutes) yields
\* at least one suggestion; the block-suitability pre-filter never discards a
\* block that has a feasible gym.
C28_FeasibleBlockGetsASuggestion ==
    (pc = "done" /\ OracleFails /\ ReachesOracle) =>
        \A i \in 1..Len(Blocks) :
            (Resolved(Blocks[i]) /\ HasFeasibleGym(Blocks[i]))
                => EntriesOf(Blocks[i]) # {}

\* a block with a feasible gym that the pre-filter discarded
C28_AtFeasibleButUnsuitable ==
    /\ pc = "done" /\ OracleFails /\ ReachesOracle
    /\ \E i \in 1..Len(Blocks) :
          /\ Resolved(Blocks[i]) /\ HasFeasibleGym(Blocks[i])
          /\ ~Suitable(Blocks[i])
          /\ EntriesOf(Blocks[i]) = {}

\* what the rule-based path does ensure: a block that passes the pre-filter and
\* has a feasible gym yields a suggestion
C28_SuitableFeasibleBlockGetsASuggestion ==
    (pc = "done" /\ OracleFails /\ ReachesOracle) =>
        \A i \in 1..Len(Blocks) :
            (Resolved(Blocks[i]) /\ HasFeasibleGym(Blocks[i]) /\ Suitable(Blocks[i]))
                => EntriesOf(Blocks[i]) # {}

\* the free block a suggestion is for, and the gym it names
BlockOf(k) ==
    Blocks[CHOOSE i \in 1..Len(Blocks) :
              /\ Blocks[i].date = suggestions[k].date
              /\ Blocks[i].start_time = suggestions[k].start_time]

GymOf(k) ==
    CHOOSE g \in {Gyms[j] : j \in 1..Len(Gyms)} : g.id = suggestions[k].location_id

FeasibleSuggestion(k) ==
    /\ Resolved(BlockOf(k))
    /\ FeasibleFor(BlockOf(k), GymOf(k), Activity)
    /\ suggestions[k].commute_info.spare_time >= 0
    /\ suggestions[k].commute_info.time_to
          = calculate_walking_time(BuildingOf(BlockOf(k).previous_class_location),
                                   GymOf(k))
    /\ suggestions[k].commute_info.time_from
          = calculate_walking_time(GymOf(k),
                                   BuildingOf(BlockOf(k).next_class_location))

\* C29: every suggestion returned by generate_suggestions, on either the
\* oracle path or the rule-based path, names a location that satisfies the
\* feasibility inequality for its free block with the requested activity
\* duration, and its commute_info has spare_time >= 0 and time_to/time_from
\* equal to the computed walking times for that block and location.
C29_SuggestionsAreFeasible ==
    pc = "done" => \A k \in 1..Len(suggestions) : FeasibleSuggestion(k)

\* a suggestion of the oracle for an infeasible gym, returned with the
\* fallback commute values and a negative spare time
C29_AtInfeasibleOracleSuggestion ==
    /\ pc = "done" /\ ~OracleFails
    /\ \E k \in 1..Len(suggestions) :
          /\ Resolved(BlockOf(k))
          /\ ~FeasibleFor(BlockOf(k), GymOf(k), Activity)
          /\ suggestions[k].commute_info.spare_time < 0

\* what does hold: on the rule-based path every suggestion is feasible
C29_RuleBasedSuggestionsAreFeasible ==
    (pc = "done" /\ OracleFails) =>
        \A k \in 1..Len(suggestions) : FeasibleSuggestion(k)

\* C30: the external oracle is never a hard dependency: for any input on which
\* the rule-based path would return at least one suggestion,
\* generate_suggestions returns a non-empty suggestion list whatever the oracle
\* returns, including when the oracle returns suggestions that all refer to
\* unknown locations or to no matching free block.
C30_OracleIsNoHardDependency ==
    (pc = "done" /\ ReachesOracle /\ RuleBased(Len(Blocks)) # << >>) =>
        raised = "none" /\ suggestions # << >>

\* the oracle answered, none of its suggestions names a known gym and a free
\* block of the request, and the result is empty although the rule-based
\* path has suggestions
C30_AtAllOracleSuggestionsSkipped ==
    /\ pc = "done" /\ ReachesOracle
    /\ oracle.api_key /\ oracle.outcome = "ok" /\ oracle.suggestions # << >>
    /\ \A a \in 1..Len(oracle.suggestions) :
          \/ matching_blocks(Blocks, oracle.suggestions[a]) = {}
          \/ ~location_found(Gyms, oracle.suggestions[a].location_id)
    /\ RuleBased(Len(Blocks)) # << >>
    /\ suggestions = << >>

\* what does hold: when the oracle fails or answers with nothing, the result
\* is non-empty whenever the rule-based path has suggestions
C30_FailingOracleIsNoDependency ==
    (pc = "done" /\ ReachesOracle /\ OracleFails /\ RuleBased(Len(Blocks)) # << >>)
        => raised = "none" /\ suggestions # << >>

(***************************************************************************)
(* The store across requests (checked under SpecApi, requests served one   *)
(* after the other, and under SpecServe, requests served concurrently)     *)
(***************************************************************************)
\* this step answers a request for suggestions
AnswersSuggestions == served'.gen # served.gen

\* C21: in every sequence of API requests of a student, generate-suggestions
\* (and regenerate-suggestion) is answered 404 'Schedule not found' until an
\* upload-schedule has succeeded, 400 'Buildings not assigned' after an upload
\* until an add-locations has succeeded, and can succeed only after both; a
\* later successful upload resets the student to 'buildings not assigned'.
C21_GatedByUploadAndAssignment ==
    [][ AnswersSuggestions =>
          /\ (~history.upload) =>
                (gen_req'.status = 404 /\ gen_req'.error = "Schedule not found")
          /\ (history.upload /\ ~history.add) =>
                (gen_req'.status = 400 /\ gen_req'.error = "Buildings not assigned")
          /\ (gen_req'.status = 200) => (history.upload /\ history.add)
      ]_vars

\* buildings were assigned, the schedule was uploaded again, and the request
\* for suggestions is answered 'Buildings not assigned'
C21_Witness ==
    /\ gen_req.pc = "answered"
    /\ gen_req.status = 400 /\ gen_req.error = "Buildings not assigned"
    /\ history.reset /\ ~history.add
    /\ add_req.pc = "answered" /\ add_req.status = 200

C21_AtNotFound ==
    gen_req.pc = "answered" /\ gen_req.error = "Schedule not found" /\ ~history.upload

C21_AtRegenerated ==
    /\ gen_req.pc = "answered" /\ gen_req.status = 200
    /\ Len(gen_req.suggestions) = 1 /\ Len(gen_req.free_blocks) = 1
    /\ history.upload /\ history.add

\* this step answers an add-locations request with an error
RejectsAddLocations ==
    served'.add # served.add /\ add_req'.status # 200

\* this step answers an upload-schedule request with an error
RejectsUpload ==
    served'.upload # served.upload /\ up_req'.status # 200

\* C22: a rejected request leaves the stored state unchanged: an add-locations
\* request in which a building id is unknown is answered 400 without changing
\* any class's building_id or the buildings_assigned flag, and an
\* upload-schedule request whose ICS content fails to parse is answered with an
\* error without replacing or altering the previously stored schedule.
C22_RejectedRequestChangesNothing ==
    [][ (RejectsAddLocations \/ RejectsUpload) =>
            (heap' = heap /\ schedules' = schedules) ]_vars

\* a stored schedule with buildings assigned, after an add-locations request
\* with an unknown building and an upload that did not parse were rejected
C22_Witness ==
    /\ add_req.pc = "answered" /\ add_req.error = "Invalid building IDs"
    /\ up_req.pc = "answered" /\ up_req.status = 400
    /\ schedule_found(schedules, STUDENT)
    /\ heap[schedules[STUDENT]].buildings_assigned
    /\ \E i \in 1..Len(StoredClasses) : StoredClasses[i].building_id # None

\* C23: under any interleaving of an upload-schedule and an add-locations
\* request of the same student, the stored entry never ends with
\* buildings_assigned = true for a schedule object to which the assignment
\* loop was not applied: the flag set by add-locations refers to the stored
\* schedule whose classes it mutated.
C23_FlagRefersToMutatedSchedule ==
    (schedule_found(schedules, STUDENT)
        /\ heap[schedules[STUDENT]].buildings_assigned)
      => schedules[STUDENT] \in history.looped

\* an upload was stored while add-locations was in its loop: the new entry is
\* flagged, none of its classes has a building, and the schedule the loop
\* wrote is no longer stored
C23_AtFlagOnFreshUpload ==
    /\ add_req.pc = "answered" /\ add_req.status = 200
    /\ schedule_found(schedules, STUDENT)
    /\ heap[schedules[STUDENT]].buildings_assigned
    /\ schedules[STUDENT] \notin history.looped
    /\ \A i \in 1..Len(StoredClasses) : StoredClasses[i].building_id = None

\* C24: whenever a stored schedule has buildings_assigned = true (after any
\* sequence of upload-schedule and add-locations requests), every class of it
\* has a non-null building_id, so every free block derived from it has
\* resolvable previous and next class locations.
C24_AssignedMeansEveryClassHasBuilding ==
    /\ (schedule_found(schedules, STUDENT)
          /\ heap[schedules[STUDENT]].buildings_assigned)
         => \A i \in 1..Len(StoredClasses) : StoredClasses[i].building_id # None
    /\ (gen_req.pc = "answered" /\ gen_req.status = 200)
         => \A k \in 1..Len(gen_req.free_blocks) :
               /\ gen_req.free_blocks[k].previous_class_location # None
               /\ gen_req.free_blocks[k].next_class_location # None

\* add-locations named one class of three and was answered 200: the request
\* for suggestions is served with blocks that have no location
C24_AtBlockWithoutLocation ==
    /\ gen_req.pc = "answered" /\ gen_req.status = 200
    /\ \E k \in 1..Len(gen_req.free_blocks) :
          gen_req.free_blocks[k].previous_class_location = None
    /\ gen_req.suggestions = << >>

\* what add_locations does ensure: a class named in an accepted request has
\* the building of the request once the request is answered
C24_NamedClassesHaveBuilding ==
    [][ (served'.add # served.add /\ add_req'.status = 200) =>
            \A i \in 1..Len(heap[add_req.ref].schedule.classes) :
                LET cls == heap'[add_req.ref].schedule.classes[i]
                IN  cls.course_id \in DOMAIN add_req.locations
                        => cls.building_id = add_req.locations[cls.course_id]
      ]_vars

====
